---- MODULE Spec2Model ----
(***************************************************************************)
(* Model of the apptoken credential-broker daemon: the process lifecycle   *)
(* manager (DaemonService.start / stop / status), the pid file and the    *)
(* socket file it shares with other daemon processes, and the client's     *)
(* connection attempt (SocketClient.sendRequest).                          *)
(*                                                                         *)
(* Granularity.  Every daemon process is a single-threaded event loop:     *)
(* the code between two suspension points (an awaited promise) runs        *)
(* without interleaving with other calls of the SAME process, but each     *)
(* file-system call of it interleaves with the calls of OTHER processes.   *)
(* Hence one action per system call, and a call that is in the middle of   *)
(* a synchronous section keeps the other calls of its process from         *)
(* stepping (Turn).  The specifications at the end of the module combine   *)
(* the actions for several processes, for overlapping calls of one         *)
(* process, and for one process making one call after the other.           *)
(***************************************************************************)
EXTENDS Integers, Sequences, FiniteSets, TLC

(***************************************************************************)
(* Bounds of the model.                                                    *)
(***************************************************************************)
NumProcs == 2       \* daemon processes sharing pidPath and socketPath
MaxCalls == 2       \* concurrently running calls (fibers) per process
MaxListeners == 2   \* listener objects that exist at the same time
MaxGets == 3        \* getInstallationToken calls made in one behaviour
MaxTicks == 3       \* minutes that pass in one behaviour
NumConns == 2       \* connections the daemon has accepted
MaxChunks == 3      \* data events of all connections in one behaviour
MaxReplyChunks == 2 \* data events of one client request
MaxSignals == 2     \* SIGINT / SIGTERM deliveries to the daemon process

Procs == 1..NumProcs
Slots == 1..MaxCalls
ListenerIds == 1..MaxListeners
Gets == 1..MaxGets
Conns == 1..NumConns
Reqs == 1..MaxChunks

(***************************************************************************)
(* Process ids.  The daemon processes are alive and signalable; DeadPid is *)
(* the id of no process (kill fails with ESRCH); EpermPid is a live        *)
(* process of another user (kill fails with EPERM).                        *)
(***************************************************************************)
DeadPid == NumProcs + 1
EpermPid == NumProcs + 2

ProcessPid(p) == p

(***************************************************************************)
(* Text.  A file's content is a sequence of one-character strings.         *)
(***************************************************************************)
Digits == <<"0", "1", "2", "3", "4", "5", "6", "7", "8", "9">>

IsDigit(c) == \E i \in 1..10 : Digits[i] = c

DigitValue(c) == (CHOOSE i \in 1..10 : Digits[i] = c) - 1

IsSpace(c) == c \in {" ", "\n", "\t"}

\* the result of parseInt: a number, or NaN
Num(n) == [nan |-> FALSE, val |-> n]
NaN == [nan |-> TRUE, val |-> 0]

\* String(process.pid): the decimal text of a non-negative integer
RECURSIVE NumberToString(_)
NumberToString(n) ==
    IF n < 10 THEN <<Digits[n + 1]>>
    ELSE NumberToString(n \div 10) \o <<Digits[(n % 10) + 1]>>

RECURSIVE TrimStart(_)
TrimStart(s) ==
    IF s # <<>> /\ IsSpace(Head(s)) THEN TrimStart(Tail(s)) ELSE s

RECURSIVE TrimEnd(_)
TrimEnd(s) ==
    IF s # <<>> /\ IsSpace(s[Len(s)]) THEN TrimEnd(SubSeq(s, 1, Len(s) - 1)) ELSE s

\* String.prototype.trim
Trim(s) == TrimEnd(TrimStart(s))

\* the value of the longest prefix of decimal digits, acc being the value so far
RECURSIVE DigitPrefix(_, _)
DigitPrefix(s, acc) ==
    IF s # <<>> /\ IsDigit(Head(s))
    THEN DigitPrefix(Tail(s), 10 * acc + DigitValue(Head(s)))
    ELSE acc

\* parseInt(s, 10) on unsigned text: the longest digit prefix is converted,
\* and NaN results when there is none
ParseInt(s) ==
    IF s # <<>> /\ IsDigit(Head(s)) THEN Num(DigitPrefix(s, 0)) ELSE NaN

(***************************************************************************)
(* JSON text.  A request or response line is a sequence of lexical tokens: *)
(* the punctuation of JSON, string literals, number literals, null, true   *)
(* and false, white space, and "x" for a character that belongs to no JSON *)
(* token.                                                                  *)
(***************************************************************************)
\* the ISO text of the expiry of the token of the response lines
ExpiryText == "1970-01-01T00:07:00.000Z"

\* the string literals of request and response lines and the strings they
\* denote
StringLits == {"\"action\"", "\"ping\"", "\"getToken\"", "\"foo\"",
               "\"ok\"", "\"pong\"", "\"token\"", "\"expiresAt\"", "\"error\"",
               "\"T\"", "\"X\"", "\"\"", "\"1970-01-01T00:07:00.000Z\""}
Unquote(t) ==
    CASE t = "\"action\"" -> "action"
      [] t = "\"ping\"" -> "ping"
      [] t = "\"getToken\"" -> "getToken"
      [] t = "\"foo\"" -> "foo"
      [] t = "\"ok\"" -> "ok"
      [] t = "\"pong\"" -> "pong"
      [] t = "\"token\"" -> "token"
      [] t = "\"expiresAt\"" -> "expiresAt"
      [] t = "\"error\"" -> "error"
      [] t = "\"T\"" -> "T"
      [] t = "\"X\"" -> "X"
      [] t = "\"\"" -> ""
      [] t = "\"1970-01-01T00:07:00.000Z\"" -> ExpiryText

NumberLits == {"5"}

\* a JavaScript value that is not an object, with the text String(v) of it
Prim(type, str) == [type |-> type, str |-> str]
Undefined == Prim("undefined", "undefined")

IsScalar(t) == t \in StringLits \cup NumberLits \cup {"null", "true", "false"}

\* the value a scalar token denotes
ScalarOf(t) ==
    IF t \in StringLits THEN Prim("string", Unquote(t))
    ELSE IF t \in NumberLits THEN Prim("number", t)
    ELSE IF t = "null" THEN Prim("null", "null")
    ELSE Prim("boolean", t)

\* the result of JSON.parse: a SyntaxError, or a value, of which the type
\* and the member `action` (of an object) are kept
SyntaxError == [ok |-> FALSE, type |-> "none", action |-> Undefined]
Parsed(type, action) == [ok |-> TRUE, type |-> type, action |-> action]

\* the members of an object after "{" or ",", action being the value of the
\* member "action" read so far: a later member replaces an earlier one
RECURSIVE Members(_, _)
Members(s, action) ==
    IF Len(s) >= 4 /\ s[1] \in StringLits /\ s[2] = ":" /\ IsScalar(s[3])
    THEN LET a == IF s[1] = "\"action\"" THEN ScalarOf(s[3]) ELSE action
         IN  IF s[4] = "}"
             THEN IF Len(s) = 4 THEN Parsed("object", a) ELSE SyntaxError
             ELSE IF s[4] = ","
             THEN Members(SubSeq(s, 5, Len(s)), a)
             ELSE SyntaxError
    ELSE SyntaxError

\* JSON.parse of a text: white space between tokens is skipped; the text is
\* a scalar, an empty array, or an object whose members are scalars
JsonParse(text) ==
    LET NotSpace(t) == ~IsSpace(t)
        s == SelectSeq(text, NotSpace)
    IN  IF s = <<>> THEN SyntaxError
        ELSE IF Len(s) = 1 /\ IsScalar(s[1]) THEN Parsed(ScalarOf(s[1]).type, Undefined)
        ELSE IF s = <<"[", "]">> THEN Parsed("array", Undefined)
        ELSE IF s = <<"{", "}">> THEN Parsed("object", Undefined)
        ELSE IF s[1] = "{" THEN Members(Tail(s), Undefined)
        ELSE SyntaxError

\* the value of the member `name` of the object whose members follow "{" or
\* ",", v being the value read so far: a later member replaces an earlier one
RECURSIVE MemberOf(_, _, _)
MemberOf(s, name, v) ==
    IF Len(s) >= 4 /\ s[1] \in StringLits /\ s[2] = ":" /\ IsScalar(s[3])
    THEN LET w == IF Unquote(s[1]) = name THEN ScalarOf(s[3]) ELSE v
         IN  IF s[4] = "," THEN MemberOf(SubSeq(s, 5, Len(s)), name, w) ELSE w
    ELSE v

\* parsed[name] of the value JSON.parse(text) returns: undefined for a value
\* that is no object or has no such member
JsonMember(text, name) ==
    LET NotSpace(t) == ~IsSpace(t)
        s == SelectSeq(text, NotSpace)
    IN  IF JsonParse(text).ok /\ JsonParse(text).type = "object"
        THEN MemberOf(Tail(s), name, Undefined)
        ELSE Undefined

\* the truth of a value in a condition: false, 0, "", null and undefined
\* count as false
Truthy(v) ==
    /\ v.type \notin {"undefined", "null"}
    /\ v \notin {Prim("boolean", "false"), Prim("string", ""), Prim("number", "0")}

\* new Date(text): the time value of an ISO text, or the invalid date
DateParse(str) == IF str = ExpiryText THEN Num(7 * 60 * 1000) ELSE NaN

\* String.prototype.indexOf of a character: the first place it is at, from 1
\* (0: it does not occur)
IndexOf(s, c) ==
    IF \E i \in 1..Len(s) : s[i] = c
    THEN CHOOSE i \in 1..Len(s) : s[i] = c /\ \A j \in 1..(i - 1) : s[j] # c
    ELSE 0

\* String.prototype.padStart(w, "0") of the decimal text of n
RECURSIVE PadStart(_, _)
PadStart(s, w) == IF Len(s) < w THEN PadStart(<<"0">> \o s, w) ELSE s

\* Date.prototype.toISOString of a time value of the first day of the epoch
ToISOString(t) ==
    <<"1", "9", "7", "0", "-", "0", "1", "-", "0", "1", "T">>
        \o PadStart(NumberToString(t \div 3600000), 2) \o <<":">>
        \o PadStart(NumberToString((t \div 60000) % 60), 2) \o <<":">>
        \o PadStart(NumberToString((t \div 1000) % 60), 2) \o <<".">>
        \o PadStart(NumberToString(t % 1000), 3) \o <<"Z">>

\* process.kill(pid, 0)
KillOutcome(pid) ==
    IF pid \in Procs THEN "ok"
    ELSE IF pid = EpermPid THEN "EPERM"
    ELSE "ESRCH"

\* isProcessAlive: true when the signal is delivered, false on any error
IsProcessAlive(pid) == KillOutcome(pid) = "ok"

(***************************************************************************)
(* State.                                                                  *)
(*   sockFile  the file at socketPath: whether it exists, the listener     *)
(*             whose bind created it (0: a file left by a daemon that is   *)
(*             gone) and its permission bits                               *)
(*   pidFile   the file at pidPath: whether it exists, and its text        *)
(*   lsn       for every listener object, the process it is open in        *)
(*             (0: not open)                                               *)
(*   server    the `server` variable of each process's DaemonService       *)
(*             (0: undefined)                                              *)
(*   call      the calls of start / stop / status running in each process: *)
(*             the operation, the place the call has reached, its local    *)
(*             `srv`, its local parsed pid, and the effects it has had so  *)
(*             far, in order                                               *)
(*   client    the place a client's sendRequest has reached                *)
(* and, to state properties of whole calls,                                *)
(*   last      the call of start or stop that returned last: its process,  *)
(*             operation, result and effects                               *)
(*   obs       what was observed since that call returned: the result of   *)
(*             a status call with the pid it reported (0: none), and the   *)
(*             result of a client request                                  *)
(*   clean     whether the file system held neither file initially         *)
(***************************************************************************)
VARIABLES sockFile, pidFile, lsn, server, call, client, last, obs, clean

lifecycleVars == <<sockFile, pidFile, lsn, server, call, client, last, obs, clean>>

(***************************************************************************)
(* State of the token service of one daemon process (makeTokenService).    *)
(*   now       Date.now(), in milliseconds                                 *)
(*   cached    the `cached` variable: a token and its expiry (a Date: a    *)
(*             time value in milliseconds or NaN), or NoToken for          *)
(*             undefined                                                   *)
(*   provLog   the invocations of deps.generateJwt and of                  *)
(*             deps.requestInstallationToken in order, each with the JWT   *)
(*             it produced or received and with what it ended with         *)
(*   issued    the number of tokens the provider has issued                *)
(*   get       the calls of getInstallationToken, numbered in the order    *)
(*             they are made: the place the call has reached, the time it  *)
(*             was made at, the cache it saw then, the length of provLog   *)
(*             when it was made and when it returned, its local `jwt`,     *)
(*             the place of its exchange in provLog, and its result        *)
(***************************************************************************)
VARIABLES now, cached, provLog, issued, get

tokenVars == <<now, cached, provLog, issued, get>>

(***************************************************************************)
(* State of the connections a daemon process serves.                       *)
(*   conn      for every accepted connection, the handler's `buffer` and   *)
(*             the response lines written to the socket, in order          *)
(*   chunks    the number of data events delivered so far                  *)
(*   req       for every data event, the handleRequest it ran, if any:     *)
(*             the place it has reached, its connection, its message, the  *)
(*             getInstallationToken call it made (0: none) and what it     *)
(*             ended with                                                  *)
(*   link      for every connection, the state of its socket: "none" (not  *)
(*             accepted), "open", or "over" (the peer has disconnected or  *)
(*             the process has exited)                                     *)
(*   run       the process that runs runDaemon: alive or exited, its exit  *)
(*             code, the number of signals its shutdown handler has been   *)
(*             run for, and whether the rejection of a shutdown promise    *)
(*             by a failed close has been reported                         *)
(***************************************************************************)
VARIABLES conn, chunks, req, link, run

serveVars == <<conn, chunks, req, link, run>>

(***************************************************************************)
(* State of a client process (SocketClient, and the gh command using it).  *)
(*   rq        the request of the client: the place sendRequest has        *)
(*             reached, the method that called it (ping or requestToken),  *)
(*             its `buffer`, the number of data events it has had, and,    *)
(*             once it has ended, its result with the error message or     *)
(*             the token and expiry; to state properties of it, what was   *)
(*             at the socket path when it began, the code of the error     *)
(*             event it had and whether it had a response line, and the    *)
(*             line                                                        *)
(*   peer      the other end of the client's connection: "none" without a  *)
(*             connection, "open", or "closed" once the peer has closed it *)
(*   gh        the gh command: the place it has reached, its option        *)
(*             --no-daemon-start, the `attempt` and `lastError` of         *)
(*             waitForDaemon, and, to state properties of it, the results  *)
(*             of its token requests and of the poll, and the numbers of   *)
(*             token requests, pings, sleeps, milliseconds slept, daemon   *)
(*             processes launched and runs of gh                           *)
(***************************************************************************)
VARIABLES rq, peer, gh

cliVars == <<rq, peer, gh>>

\* the state of the token service, of the connections and of the client
dataVars == <<now, cached, provLog, issued, get, conn, chunks, req, link, run,
              rq, peer, gh>>

vars == <<sockFile, pidFile, lsn, server, call, client, last, obs, clean,
          now, cached, provLog, issued, get, conn, chunks, req, link, run,
          rq, peer, gh>>

Minute == 60 * 1000

\* const CACHE_BUFFER_MS
CACHE_BUFFER_MS == 5 * 60 * 1000

\* the lifetimes of the tokens the provider issues: below the buffer, and
\* two minutes more than the buffer
Lifetimes == {4 * Minute, 7 * Minute}

\* the expiry dates the provider returns at time t: new Date(body.expires_at)
\* is a date after t, or the invalid date when the response body has no
\* expires_at (the body of an error response of the API)
Expiries(t) == {Num(t + life) : life \in Lifetimes} \cup {NaN}

NoToken == [token |-> 0, expiresAt |-> Num(0)]
NewGet == [pc |-> "new", begun |-> 0, seen |-> NoToken, from |-> 0, to |-> 0,
           jwt |-> 0, xch |-> 0, res |-> "none", token |-> 0, expiresAt |-> Num(0)]

\* the objects handleRequest passes to JSON.stringify
Response(ok, pong, token, expiresAt, error) ==
    [ok |-> ok, pong |-> pong, token |-> token, expiresAt |-> expiresAt,
     error |-> error]
Pong == Response(TRUE, TRUE, 0, <<>>, "")
ErrorResponse(error) == Response(FALSE, FALSE, 0, <<>>, error)

\* what an effect of handleRequest ends with: the response it returns, or
\* the exception it dies with
Returned(resp) == [kind |-> "return", resp |-> resp, err |-> ""]
Thrown(err) == [kind |-> "throw", resp |-> ErrorResponse(""), err |-> err]
Suspended == [kind |-> "getToken", resp |-> ErrorResponse(""), err |-> ""]

NoReq == [pc |-> "none", conn |-> 0, msg |-> <<>>, get |-> 0, end |-> Suspended]

ServeInit ==
    /\ conn = [c \in Conns |-> [buffer |-> <<>>, out |-> <<>>]]
    /\ chunks = 0
    /\ req = [r \in Reqs |-> NoReq]
    /\ run = [pc |-> "live", code |-> -1, sig |-> 0, rejected |-> FALSE]

TokenInit ==
    /\ now = 0
    /\ cached = NoToken
    /\ provLog = <<>>
    /\ issued = 0
    /\ get = [k \in Gets |-> NewGet]

\* what a client request ends with
Result(res, message, token, expiresAt) ==
    [res |-> res, message |-> message, token |-> token, expiresAt |-> expiresAt]
Ok(token, expiresAt) == Result("Ok", "", token, expiresAt)
Failure(res, message) == Result(res, message, "", NaN)
NoResultYet == Result("none", "", "", NaN)

NoRq == [pc |-> "idle", kind |-> "none", buffer |-> <<>>, n |-> 0,
         saw |-> "none", code |-> "none", lined |-> FALSE, raw |-> <<>>,
         end |-> NoResultYet]

NoGh == [pc |-> "none", noDaemonStart |-> FALSE, attempt |-> 0,
         lastError |-> "none", first |-> "none", poll |-> "none",
         second |-> "none", tokens |-> 0, pings |-> 0, sleeps |-> 0,
         slept |-> 0, launches |-> 0, runs |-> 0]

ClientInit ==
    /\ rq = NoRq
    /\ peer = "none"
    /\ gh = NoGh

NoSock == [exists |-> FALSE, inode |-> 0, mode |-> "none"]
NoPid == [exists |-> FALSE, text |-> <<>>]

SockOf(id, mode) == [exists |-> TRUE, inode |-> id, mode |-> mode]
PidOf(text) == [exists |-> TRUE, text |-> text]

IdleCall == [op |-> "none", pc |-> "idle", srv |-> 0, pid |-> 0, did |-> <<>>]

NoResult == [proc |-> 0, op |-> "none", res |-> "none", did |-> <<>>]
NoObs == [status |-> "none", pid |-> 0, client |-> "none"]

\* the places of a call inside a synchronous section of its process
SyncPcs == {"readPid", "probe", "rmPid", "chkSock", "rmSock", "listen",
            "rmSockS", "chkPidS", "rmPidS", "readPidQ", "probeQ"}

\* the event loop of process p is free to run call f
Turn(p, f) == \A g \in Slots \ {f} : call[p][g].pc \notin SyncPcs

\* the pid files a crashed or foreign daemon may have left behind
StalePidTexts == {NumberToString(EpermPid), <<"x">>,
                  NumberToString(DeadPid) \o <<"\n">>}

Init ==
    /\ sockFile \in {NoSock, SockOf(0, "0600")}
    /\ pidFile \in {NoPid} \cup {PidOf(t) : t \in StalePidTexts}
    /\ lsn = [i \in ListenerIds |-> 0]
    /\ server = [p \in Procs |-> 0]
    /\ call = [p \in Procs |-> [f \in Slots |-> IdleCall]]
    /\ client = "idle"
    /\ last = NoResult
    /\ obs = NoObs
    /\ clean = (~sockFile.exists /\ ~pidFile.exists)
    /\ TokenInit
    /\ ServeInit
    /\ link = [c \in Conns |-> "none"]
    /\ ClientInit

\* call f of process p moves to place pc
Goto(p, f, pc) == call' = [call EXCEPT ![p][f].pc = pc] /\ UNCHANGED <<last, obs>>

\* call f of process p moves to place pc after the effect e
Effect(p, f, pc, e) ==
    /\ call' = [call EXCEPT ![p][f].pc = pc, ![p][f].did = Append(@, e)]
    /\ UNCHANGED <<last, obs>>

\* call f of process p, of start or stop, returns res, its effects being did
ReturnOf(p, f, op, res, did) ==
    /\ call' = [call EXCEPT ![p][f] = IdleCall]
    /\ last' = [proc |-> p, op |-> op, res |-> res, did |-> did]
    /\ obs' = NoObs

\* call f of process p returns res
Return(p, f, res) == ReturnOf(p, f, call[p][f].op, res, call[p][f].did)

\* call f of process p, of status, reports res and pid
Report(p, f, res, pid) ==
    /\ call' = [call EXCEPT ![p][f] = IdleCall]
    /\ obs' = [obs EXCEPT !.status = res, !.pid = pid]
    /\ UNCHANGED last

\* a listener id that names no listener object in use
FreeListeners ==
    {i \in ListenerIds :
        /\ lsn[i] = 0
        /\ sockFile.inode # i
        /\ \A p \in Procs : server[p] # i /\ \A f \in Slots : call[p][f].srv # i}

(***************************************************************************)
(* start()                                                                 *)
(***************************************************************************)
\* lines 94-99: `if (server)`, then existsSync(pidPath)
StartBegin(p, f) ==
    /\ call[p][f].pc = "idle"
    /\ Turn(p, f)
    /\ IF server[p] # 0 THEN ReturnOf(p, f, "start", "AlreadyRunning", <<>>)
       ELSE /\ call' = [call EXCEPT ![p][f] =
                    [IdleCall EXCEPT !.op = "start",
                                     !.pc = IF pidFile.exists THEN "readPid" ELSE "chkSock"]]
            /\ UNCHANGED <<last, obs>>
    /\ UNCHANGED <<sockFile, pidFile, lsn, server, client, clean, dataVars>>

\* lines 100-101: readFileSync(pidPath), trim, parseInt; readFileSync throws
\* when another process has removed the file meanwhile
StartReadPid(p, f) ==
    /\ call[p][f].op = "start" /\ call[p][f].pc = "readPid"
    /\ IF ~pidFile.exists THEN Return(p, f, "Defect")
       ELSE LET existingPid == ParseInt(Trim(pidFile.text))
            IN  IF existingPid.nan THEN Goto(p, f, "rmPid")
                ELSE /\ call' = [call EXCEPT ![p][f].pc = "probe",
                                             ![p][f].pid = existingPid.val]
                     /\ UNCHANGED <<last, obs>>
    /\ UNCHANGED <<sockFile, pidFile, lsn, server, client, clean, dataVars>>

\* a bug: the pid file is removed before the recorded process is probed
StartProbe_Cleanup(p, f) ==
    /\ call[p][f].op = "start" /\ call[p][f].pc = "probe"
    /\ pidFile' = NoPid
    /\ IF IsProcessAlive(call[p][f].pid)
       THEN ReturnOf(p, f, "start", "AlreadyRunning", <<>>)
       ELSE call' = [call EXCEPT ![p][f].pc = "chkSock", ![p][f].pid = 0]
            /\ UNCHANGED <<last, obs>>
    /\ UNCHANGED <<sockFile, lsn, server, client, clean, dataVars>>

\* lines 102-104: the liveness probe of the recorded process
StartProbe(p, f) ==
    /\ call[p][f].op = "start" /\ call[p][f].pc = "probe"
    /\ IF IsProcessAlive(call[p][f].pid) THEN Return(p, f, "AlreadyRunning")
       ELSE call' = [call EXCEPT ![p][f].pc = "rmPid", ![p][f].pid = 0]
            /\ UNCHANGED <<last, obs>>
    /\ UNCHANGED <<sockFile, pidFile, lsn, server, client, clean, dataVars>>

\* line 106: unlinkSync(pidPath) of the stale pid file
StartUnlinkPid(p, f) ==
    /\ call[p][f].op = "start" /\ call[p][f].pc = "rmPid"
    /\ IF ~pidFile.exists
       THEN Return(p, f, "Defect") /\ UNCHANGED pidFile
       ELSE pidFile' = NoPid /\ Effect(p, f, "chkSock", "rmPid")
    /\ UNCHANGED <<sockFile, lsn, server, client, clean, dataVars>>

\* a bug: a socket file left at the path is not looked for
StartCheckSock_Skip(p, f) ==
    /\ call[p][f].op = "start" /\ call[p][f].pc = "chkSock"
    /\ Goto(p, f, "listen")
    /\ UNCHANGED <<sockFile, pidFile, lsn, server, client, clean, dataVars>>

\* line 110: existsSync(socketPath)
StartCheckSock(p, f) ==
    /\ call[p][f].op = "start" /\ call[p][f].pc = "chkSock"
    /\ Goto(p, f, IF sockFile.exists THEN "rmSock" ELSE "listen")
    /\ UNCHANGED <<sockFile, pidFile, lsn, server, client, clean, dataVars>>

\* line 111: unlinkSync(socketPath) of the stale socket file
StartUnlinkSock(p, f) ==
    /\ call[p][f].op = "start" /\ call[p][f].pc = "rmSock"
    /\ IF ~sockFile.exists
       THEN Return(p, f, "Defect") /\ UNCHANGED sockFile
       ELSE sockFile' = NoSock /\ Effect(p, f, "listen", "rmSock")
    /\ UNCHANGED <<pidFile, lsn, server, client, clean, dataVars>>

\* a bug: the pid file is written before the listener is bound
StartListen_PidFirst(p, f) ==
    /\ call[p][f].op = "start" /\ call[p][f].pc = "listen"
    /\ pidFile' = PidOf(NumberToString(ProcessPid(p)))
    /\ \E bindOk \in BOOLEAN :
         IF bindOk /\ ~sockFile.exists /\ FreeListeners # {}
         THEN LET s == CHOOSE i \in FreeListeners : \A j \in FreeListeners : i <= j
              IN  /\ sockFile' = SockOf(s, "umask")
                  /\ lsn' = [lsn EXCEPT ![s] = p]
                  /\ call' = [call EXCEPT ![p][f].pc = "bound", ![p][f].srv = s,
                                          ![p][f].did = Append(@, "bind")]
                  /\ UNCHANGED <<last, obs>>
         ELSE /\ Goto(p, f, "bindErr")
              /\ UNCHANGED <<sockFile, lsn>>
    /\ UNCHANGED <<server, client, clean, dataVars>>

\* lines 115-149: createServer and s.listen(socketPath): the bind creates the
\* socket file; it fails when the path exists (EADDRINUSE) or for a reason of
\* the environment (bindOk); the outcome is delivered by a later event
StartListen(p, f) ==
    /\ call[p][f].op = "start" /\ call[p][f].pc = "listen"
    /\ \E bindOk \in BOOLEAN :
         IF bindOk /\ ~sockFile.exists /\ FreeListeners # {}
         THEN LET s == CHOOSE i \in FreeListeners : \A j \in FreeListeners : i <= j
              IN  /\ sockFile' = SockOf(s, "umask")
                  /\ lsn' = [lsn EXCEPT ![s] = p]
                  /\ call' = [call EXCEPT ![p][f].pc = "bound", ![p][f].srv = s,
                                          ![p][f].did = Append(@, "bind")]
                  /\ UNCHANGED <<last, obs>>
         ELSE /\ Goto(p, f, "bindErr")
              /\ UNCHANGED <<sockFile, lsn>>
    /\ UNCHANGED <<pidFile, server, client, clean, dataVars>>

\* a bug: a chmodSync that fails makes start() fail
StartListening_Strict(p, f) ==
    /\ call[p][f].op = "start" /\ call[p][f].pc = "bound"
    /\ Turn(p, f)
    /\ \E chmodOk \in BOOLEAN :
         IF chmodOk /\ sockFile.exists
         THEN /\ sockFile' = [sockFile EXCEPT !.mode = "0600"]
              /\ Effect(p, f, "resolved", "chmod")
         ELSE /\ Return(p, f, "DaemonError")
              /\ UNCHANGED sockFile
    /\ UNCHANGED <<pidFile, lsn, server, client, clean, dataVars>>

\* lines 141-148: the listen callback: chmodSync(socketPath, 0o600) on the
\* file that is at the path now, its failure ignored; resolve(s)
StartListening(p, f) ==
    /\ call[p][f].op = "start" /\ call[p][f].pc = "bound"
    /\ Turn(p, f)
    /\ \E chmodOk \in BOOLEAN :
         IF chmodOk /\ sockFile.exists
         THEN /\ sockFile' = [sockFile EXCEPT !.mode = "0600"]
              /\ Effect(p, f, "resolved", "chmod")
         ELSE /\ Goto(p, f, "resolved")
              /\ UNCHANGED sockFile
    /\ UNCHANGED <<pidFile, lsn, server, client, clean, dataVars>>

\* lines 149-154: the listener's error event: start fails with DaemonError
StartBindError(p, f) ==
    /\ call[p][f].op = "start" /\ call[p][f].pc = "bindErr"
    /\ Turn(p, f)
    /\ Return(p, f, "DaemonError")
    /\ UNCHANGED <<sockFile, pidFile, lsn, server, client, clean, dataVars>>

\* lines 157-160: server = srv; writeFileSync(pidPath, String(process.pid))
StartWritePid(p, f) ==
    /\ call[p][f].op = "start" /\ call[p][f].pc = "resolved"
    /\ Turn(p, f)
    /\ server' = [server EXCEPT ![p] = call[p][f].srv]
    /\ pidFile' = PidOf(NumberToString(ProcessPid(p)))
    /\ ReturnOf(p, f, "start", "Ok", call[p][f].did \o <<"server", "writePid">>)
    /\ UNCHANGED <<sockFile, lsn, client, clean, dataVars>>

(***************************************************************************)
(* stop()                                                                  *)
(***************************************************************************)
\* a bug: the files are removed before the handle is looked at
StopBegin_Cleanup(p, f) ==
    /\ call[p][f].pc = "idle"
    /\ Turn(p, f)
    /\ sockFile' = NoSock
    /\ pidFile' = NoPid
    /\ IF server[p] = 0
       THEN /\ ReturnOf(p, f, "stop", "NotRunning", <<>>)
            /\ UNCHANGED server
       ELSE /\ call' = [call EXCEPT ![p][f] =
                    [IdleCall EXCEPT !.op = "stop", !.pc = "closing",
                                     !.srv = server[p], !.did = <<"server">>]]
            /\ server' = [server EXCEPT ![p] = 0]
            /\ UNCHANGED <<last, obs>>
    /\ UNCHANGED <<lsn, client, clean, dataVars>>

\* a bug: the close is requested and the call goes on to the files without
\* waiting for its callback
StopBegin_NoWait(p, f) ==
    /\ call[p][f].pc = "idle"
    /\ Turn(p, f)
    /\ IF server[p] = 0
       THEN /\ ReturnOf(p, f, "stop", "NotRunning", <<>>)
            /\ UNCHANGED server
       ELSE /\ call' = [call EXCEPT ![p][f] =
                    [IdleCall EXCEPT !.op = "stop",
                                     !.pc = IF sockFile.exists THEN "rmSockS"
                                            ELSE "chkPidS",
                                     !.srv = server[p], !.did = <<"server">>]]
            /\ server' = [server EXCEPT ![p] = 0]
            /\ UNCHANGED <<last, obs>>
    /\ UNCHANGED <<sockFile, pidFile, lsn, client, clean, dataVars>>

\* a bug: `server` is left set while the close is pending
StopBegin_LateClear(p, f) ==
    /\ call[p][f].pc = "idle"
    /\ Turn(p, f)
    /\ IF server[p] = 0
       THEN /\ ReturnOf(p, f, "stop", "NotRunning", <<>>)
            /\ UNCHANGED server
       ELSE /\ call' = [call EXCEPT ![p][f] =
                    [IdleCall EXCEPT !.op = "stop", !.pc = "closing",
                                     !.srv = server[p], !.did = <<"server">>]]
            /\ UNCHANGED <<server, last, obs>>
    /\ UNCHANGED <<sockFile, pidFile, lsn, client, clean, dataVars>>

\* lines 165-179: `if (!server)`; srv = server; server = undefined;
\* srv.close(cb) is requested
StopBegin(p, f) ==
    /\ call[p][f].pc = "idle"
    /\ Turn(p, f)
    /\ IF server[p] = 0
       THEN /\ ReturnOf(p, f, "stop", "NotRunning", <<>>)
            /\ UNCHANGED server
       ELSE /\ call' = [call EXCEPT ![p][f] =
                    [IdleCall EXCEPT !.op = "stop", !.pc = "closing",
                                     !.srv = server[p], !.did = <<"server">>]]
            /\ server' = [server EXCEPT ![p] = 0]
            /\ UNCHANGED <<last, obs>>
    /\ UNCHANGED <<sockFile, pidFile, lsn, client, clean, dataVars>>

\* the connections, which are those of process 1, have ended
Drained(p) == \A c \in Conns : p = 1 => link[c] # "open"

\* lines 175-187: the close callback.  With an error the promise rejects and
\* stop fails with DaemonError, the rest of the generator not being run and
\* the listener being left as it is; without, the listener is closed and the
\* call goes on to existsSync(socketPath).  The callback of a close that
\* succeeds runs when the connections of the server have ended.
StopClosed(p, f) ==
    /\ call[p][f].op = "stop" /\ call[p][f].pc = "closing"
    /\ Turn(p, f)
    /\ \E closeOk \in BOOLEAN :
         IF closeOk
         THEN /\ Drained(p)
              /\ lsn' = [lsn EXCEPT ![call[p][f].srv] = 0]
              /\ call' = [call EXCEPT ![p][f].srv = 0,
                            ![p][f].did = Append(@, "close"),
                            ![p][f].pc = IF sockFile.exists THEN "rmSockS" ELSE "chkPidS"]
              /\ UNCHANGED <<last, obs>>
         ELSE /\ Return(p, f, "DaemonError")
              /\ UNCHANGED lsn
    /\ UNCHANGED <<sockFile, pidFile, server, client, clean, dataVars>>

\* a bug: the socket file is left at the path
StopUnlinkSock_Skip(p, f) ==
    /\ call[p][f].op = "stop" /\ call[p][f].pc = "rmSockS"
    /\ Goto(p, f, "chkPidS")
    /\ UNCHANGED <<sockFile, pidFile, lsn, server, client, clean, dataVars>>

\* line 188: unlinkSync(socketPath)
StopUnlinkSock(p, f) ==
    /\ call[p][f].op = "stop" /\ call[p][f].pc = "rmSockS"
    /\ IF ~sockFile.exists
       THEN Return(p, f, "Defect") /\ UNCHANGED sockFile
       ELSE sockFile' = NoSock /\ Effect(p, f, "chkPidS", "rmSock")
    /\ UNCHANGED <<pidFile, lsn, server, client, clean, dataVars>>

\* line 190: existsSync(pidPath)
StopCheckPid(p, f) ==
    /\ call[p][f].op = "stop" /\ call[p][f].pc = "chkPidS"
    /\ IF pidFile.exists THEN Goto(p, f, "rmPidS") ELSE Return(p, f, "Ok")
    /\ UNCHANGED <<sockFile, pidFile, lsn, server, client, clean, dataVars>>

\* a bug: the pid file is left behind
StopUnlinkPid_Keep(p, f) ==
    /\ call[p][f].op = "stop" /\ call[p][f].pc = "rmPidS"
    /\ Return(p, f, "Ok")
    /\ UNCHANGED <<sockFile, pidFile, lsn, server, client, clean, dataVars>>

\* line 191: unlinkSync(pidPath)
StopUnlinkPid(p, f) ==
    /\ call[p][f].op = "stop" /\ call[p][f].pc = "rmPidS"
    /\ IF ~pidFile.exists
       THEN Return(p, f, "Defect") /\ UNCHANGED pidFile
       ELSE /\ pidFile' = NoPid
            /\ ReturnOf(p, f, "stop", "Ok", Append(call[p][f].did, "rmPid"))
    /\ UNCHANGED <<sockFile, lsn, server, client, clean, dataVars>>

(***************************************************************************)
(* status(): reports "Running" with a pid, or "Stopped"                    *)
(***************************************************************************)
\* lines 197-202: `if (server)`, then existsSync(pidPath)
StatusBegin(p, f) ==
    /\ call[p][f].pc = "idle"
    /\ Turn(p, f)
    /\ IF server[p] # 0 THEN Report(p, f, "Running", ProcessPid(p))
       ELSE IF pidFile.exists
       THEN /\ call' = [call EXCEPT ![p][f] =
                    [IdleCall EXCEPT !.op = "status", !.pc = "readPidQ"]]
            /\ UNCHANGED <<last, obs>>
       ELSE Report(p, f, "Stopped", 0)
    /\ UNCHANGED <<sockFile, pidFile, lsn, server, client, clean, dataVars>>

\* lines 203-204: readFileSync(pidPath), trim, parseInt
StatusReadPid(p, f) ==
    /\ call[p][f].op = "status" /\ call[p][f].pc = "readPidQ"
    /\ IF ~pidFile.exists THEN Report(p, f, "Defect", 0)
       ELSE LET pid == ParseInt(Trim(pidFile.text))
            IN  IF pid.nan THEN Report(p, f, "Stopped", 0)
                ELSE /\ call' = [call EXCEPT ![p][f].pc = "probeQ", ![p][f].pid = pid.val]
                     /\ UNCHANGED <<last, obs>>
    /\ UNCHANGED <<sockFile, pidFile, lsn, server, client, clean, dataVars>>

\* a bug: status() deletes a pid file it finds stale
StatusProbe_Reconcile(p, f) ==
    /\ call[p][f].op = "status" /\ call[p][f].pc = "probeQ"
    /\ IF IsProcessAlive(call[p][f].pid)
       THEN Report(p, f, "Running", call[p][f].pid) /\ UNCHANGED pidFile
       ELSE Report(p, f, "Stopped", 0) /\ pidFile' = NoPid
    /\ UNCHANGED <<sockFile, lsn, server, client, clean, dataVars>>

\* lines 205-210: the liveness probe of the recorded process
StatusProbe(p, f) ==
    /\ call[p][f].op = "status" /\ call[p][f].pc = "probeQ"
    /\ IF IsProcessAlive(call[p][f].pid)
       THEN Report(p, f, "Running", call[p][f].pid)
       ELSE Report(p, f, "Stopped", 0)
    /\ UNCHANGED <<sockFile, pidFile, lsn, server, client, clean, dataVars>>

(***************************************************************************)
(* The client's sendRequest, up to the connection                          *)
(***************************************************************************)
\* what connect(socketPath) ends with: ENOENT without a file, ECONNREFUSED
\* when no open listener is bound to the file, and an error of another kind
\* (EACCES) whenever the environment produces one
ConnectOutcomes ==
    IF ~sockFile.exists THEN {"ENOENT"}
    ELSE IF sockFile.inode = 0 \/ lsn[sockFile.inode] = 0 THEN {"ECONNREFUSED", "EACCES"}
    ELSE {"connect", "EACCES"}

\* a bug: every connection error counts as "not running"
ErrorOf_Any(code) == "DaemonNotRunning"

\* the error class of a connection error
ErrorOf(code) ==
    IF code \in {"ECONNREFUSED", "ENOENT"} THEN "DaemonNotRunning" ELSE "SocketError"

\* SocketClient.ts lines 19-32: existsSync(socketPath), then connect
ClientSend ==
    /\ client = "idle"
    /\ IF ~sockFile.exists
       THEN obs' = [obs EXCEPT !.client = "DaemonNotRunning"] /\ UNCHANGED client
       ELSE client' = "connecting" /\ UNCHANGED obs
    /\ UNCHANGED <<sockFile, pidFile, lsn, server, call, last, clean, dataVars>>

\* SocketClient.ts lines 34-54: the connect event or the error event
ClientConnect ==
    /\ client = "connecting"
    /\ client' = "idle"
    /\ \E o \in ConnectOutcomes :
         obs' = [obs EXCEPT !.client = IF o = "connect" THEN "Connected" ELSE ErrorOf(o)]
    /\ UNCHANGED <<sockFile, pidFile, lsn, server, call, last, clean, dataVars>>

(***************************************************************************)
(* getInstallationToken()                                                  *)
(***************************************************************************)
\* a bug: the cache is never taken for valid
IsCacheValid_Never == FALSE

\* a bug: a token whose remaining lifetime equals the buffer is served
IsCacheValid_AtLeast ==
    IF cached = NoToken THEN FALSE
    ELSE ~cached.expiresAt.nan /\ cached.expiresAt.val - now >= CACHE_BUFFER_MS

\* isCacheValid; a comparison with the NaN of an invalid date is false
IsCacheValid ==
    IF cached = NoToken THEN FALSE
    ELSE ~cached.expiresAt.nan /\ cached.expiresAt.val - now > CACHE_BUFFER_MS

\* call k returns the token t
Succeed(k, t) ==
    [get[k] EXCEPT !.pc = "done", !.res = "Ok", !.token = t.token,
                   !.expiresAt = t.expiresAt, !.to = Len(provLog)]

\* call k fails with the error e
Fail(k, e) == [get[k] EXCEPT !.pc = "done", !.res = e, !.to = Len(provLog)]

\* the calls that were made before call k have returned
Sequential(k) == \A j \in 1..(k - 1) : get[j].pc = "done"

\* lines 44-48: the call is made; a valid cache is returned, and otherwise
\* deps.generateJwt is invoked
GetTokenBegin(k) ==
    /\ get[k].pc = "new"
    /\ \A j \in 1..(k - 1) : get[j].pc # "new"
    /\ LET g == [get[k] EXCEPT !.begun = now, !.seen = cached,
                               !.from = Len(provLog)]
       IN  IF IsCacheValid
           THEN /\ get' = [get EXCEPT ![k] =
                        [g EXCEPT !.pc = "done", !.res = "Ok", !.token = cached.token,
                                  !.expiresAt = cached.expiresAt, !.to = Len(provLog)]]
                /\ UNCHANGED provLog
           ELSE /\ provLog' = Append(provLog,
                        [step |-> "generateJwt", jwt |-> Len(provLog) + 1,
                         out |-> "pending"])
                /\ get' = [get EXCEPT ![k] =
                        [g EXCEPT !.pc = "jwt", !.jwt = Len(provLog) + 1]]
    /\ UNCHANGED <<now, cached, issued>>

\* a bug: when generateJwt fails a token left in the cache is returned
JwtDone_Fallback(k) ==
    /\ get[k].pc = "jwt"
    /\ \E out \in {"ok", "JwtGenerationError"} :
         LET log == [provLog EXCEPT ![get[k].jwt].out = out]
         IN  IF out = "ok"
             THEN /\ provLog' = Append(log,
                          [step |-> "requestInstallationToken", jwt |-> get[k].jwt,
                           out |-> "pending"])
                  /\ get' = [get EXCEPT ![k].pc = "exchange", ![k].xch = Len(log) + 1]
             ELSE /\ provLog' = log
                  /\ get' = [get EXCEPT ![k] =
                          IF cached = NoToken THEN Fail(k, out) ELSE Succeed(k, cached)]
    /\ UNCHANGED <<now, cached, issued>>

\* a bug: a failure of generateJwt clears the cache
JwtDone_Clears(k) ==
    /\ get[k].pc = "jwt"
    /\ \E out \in {"ok", "JwtGenerationError"} :
         LET log == [provLog EXCEPT ![get[k].jwt].out = out]
         IN  IF out = "ok"
             THEN /\ provLog' = Append(log,
                          [step |-> "requestInstallationToken", jwt |-> get[k].jwt,
                           out |-> "pending"])
                  /\ get' = [get EXCEPT ![k].pc = "exchange", ![k].xch = Len(log) + 1]
                  /\ UNCHANGED cached
             ELSE /\ provLog' = log
                  /\ get' = [get EXCEPT ![k] = Fail(k, out)]
                  /\ cached' = NoToken
    /\ UNCHANGED <<now, issued>>

\* lines 48-52: generateJwt has ended; its error fails the call, and its JWT
\* is passed to deps.requestInstallationToken
JwtDone(k) ==
    /\ get[k].pc = "jwt"
    /\ \E out \in {"ok", "JwtGenerationError"} :
         LET log == [provLog EXCEPT ![get[k].jwt].out = out]
         IN  IF out = "ok"
             THEN /\ provLog' = Append(log,
                          [step |-> "requestInstallationToken", jwt |-> get[k].jwt,
                           out |-> "pending"])
                  /\ get' = [get EXCEPT ![k].pc = "exchange", ![k].xch = Len(log) + 1]
             ELSE /\ provLog' = log
                  /\ get' = [get EXCEPT ![k] = Fail(k, out)]
    /\ UNCHANGED <<now, cached, issued>>

\* a bug: the fetched token is returned but not stored
ExchangeDone_NoStore(k) ==
    /\ get[k].pc = "exchange"
    /\ \E out \in {"ok", "GitHubApiError"}, expiresAt \in Expiries(now) :
         /\ provLog' = [provLog EXCEPT ![get[k].xch].out = out]
         /\ IF out = "ok"
            THEN /\ issued' = issued + 1
                 /\ get' = [get EXCEPT ![k] =
                         Succeed(k, [token |-> issued + 1, expiresAt |-> expiresAt])]
            ELSE /\ get' = [get EXCEPT ![k] = Fail(k, out)]
                 /\ UNCHANGED issued
    /\ UNCHANGED <<now, cached>>

\* a bug: a token that is cached is not replaced by a refresh that began
\* before it was stored
ExchangeDone_FirstWins(k) ==
    /\ get[k].pc = "exchange"
    /\ \E out \in {"ok", "GitHubApiError"}, expiresAt \in Expiries(now) :
         /\ provLog' = [provLog EXCEPT ![get[k].xch].out = out]
         /\ IF out = "ok"
            THEN LET token == [token |-> issued + 1, expiresAt |-> expiresAt]
                 IN  /\ cached' = IF cached = get[k].seen THEN token ELSE cached
                     /\ issued' = issued + 1
                     /\ get' = [get EXCEPT ![k] = Succeed(k, token)]
            ELSE /\ get' = [get EXCEPT ![k] = Fail(k, out)]
                 /\ UNCHANGED <<cached, issued>>
    /\ UNCHANGED now

\* a bug: a refresh replaces the token of the cache and keeps the expiry of
\* a token that was cached
ExchangeDone_Split(k) ==
    /\ get[k].pc = "exchange"
    /\ \E out \in {"ok", "GitHubApiError"}, expiresAt \in Expiries(now) :
         /\ provLog' = [provLog EXCEPT ![get[k].xch].out = out]
         /\ IF out = "ok"
            THEN LET token == [token |-> issued + 1, expiresAt |-> expiresAt]
                 IN  /\ cached' = IF cached = NoToken THEN token
                                  ELSE [cached EXCEPT !.token = token.token]
                     /\ issued' = issued + 1
                     /\ get' = [get EXCEPT ![k] = Succeed(k, token)]
            ELSE /\ get' = [get EXCEPT ![k] = Fail(k, out)]
                 /\ UNCHANGED <<cached, issued>>
    /\ UNCHANGED now

\* lines 49-55: requestInstallationToken has ended; its error fails the
\* call, and its token is stored in `cached` and returned
ExchangeDone(k) ==
    /\ get[k].pc = "exchange"
    /\ \E out \in {"ok", "GitHubApiError"}, expiresAt \in Expiries(now) :
         /\ provLog' = [provLog EXCEPT ![get[k].xch].out = out]
         /\ IF out = "ok"
            THEN LET token == [token |-> issued + 1, expiresAt |-> expiresAt]
                 IN  /\ cached' = token
                     /\ issued' = issued + 1
                     /\ get' = [get EXCEPT ![k] = Succeed(k, token)]
            ELSE /\ get' = [get EXCEPT ![k] = Fail(k, out)]
                 /\ UNCHANGED <<cached, issued>>
    /\ UNCHANGED now

\* a minute passes
Tick ==
    /\ now < MaxTicks * Minute
    /\ now' = now + Minute
    /\ UNCHANGED <<cached, provLog, issued, get>>
    /\ UNCHANGED <<lifecycleVars, serveVars, cliVars>>

\* a call of getInstallationToken made by a caller other than the router
TokenCall(k) == GetTokenBegin(k) /\ UNCHANGED <<lifecycleVars, serveVars, cliVars>>

\* such a call, made after the calls before it have returned
TokenCallSeq(k) == Sequential(k) /\ TokenCall(k)

\* the steps of the provider, which leave the connections as they are
JwtEnds(k) == JwtDone(k) /\ UNCHANGED <<lifecycleVars, serveVars, cliVars>>
ExchangeEnds(k) == ExchangeDone(k) /\ UNCHANGED <<lifecycleVars, serveVars, cliVars>>

(***************************************************************************)
(* The router (handleRequest) and the connection handler                   *)
(***************************************************************************)
\* the request lines clients send
Ping == <<"{", "\"action\"", ":", "\"ping\"", "}">>
GetToken == <<"{", "\"action\"", ":", "\"getToken\"", "}">>
RequestLines ==
    { Ping, GetToken, <<" ">> \o Ping \o <<" ">>,
      <<"{", "\"action\"", ":", "\"foo\"", "}">>,
      <<"{", "\"action\"", ":", "5", "}">>,
      <<"{", "\"action\"", ":", "null", "}">>,
      <<"{", "\"foo\"", ":", "\"ping\"", "}">>,
      <<"{", "}">>, <<"[", "]">>, <<"\"ping\"">>, <<"null">>,
      <<"x">>, <<>>, <<"{", "\"action\"", ":">> }

\* the chunks data events deliver: a whole line, the parts of a line, two
\* lines at once, and text without a newline
Chunks ==
    { Ping \o <<"\n">>, GetToken \o <<"\n">>,
      <<"{", "\"action\"">>, <<":", "\"ping\"", "}", "\n">>,
      Ping \o <<"\n">> \o GetToken \o <<"\n">>, <<"x">> }

\* lines 49-81, up to the first suspension: JSON.parse of the trimmed line,
\* and the dispatch on parsed.action
HandleRequest(raw) ==
    LET parsed == JsonParse(Trim(raw))
    IN  IF ~parsed.ok THEN Returned(ErrorResponse("Invalid JSON"))
        ELSE IF parsed.type = "null" THEN Thrown("TypeError")
        ELSE IF parsed.action = Prim("string", "ping") THEN Returned(Pong)
        ELSE IF parsed.action = Prim("string", "getToken") THEN Suspended
        ELSE Returned(ErrorResponse("Unknown action: " \o
                 (IF parsed.action.type \in {"undefined", "null"}
                  THEN "(none)" ELSE parsed.action.str)))

\* lines 64-76: the response to getToken, made from the result g of
\* getInstallationToken; toISOString throws a RangeError on an invalid date
TokenResult(g) ==
    IF g.res = "Ok"
    THEN IF g.expiresAt.nan THEN Thrown("RangeError")
         ELSE Returned(Response(TRUE, FALSE, g.token,
                                ToISOString(g.expiresAt.val), ""))
    ELSE Returned(ErrorResponse(g.res))

\* lines 129-137: the response line the handler writes when the promise of
\* handleRequest is fulfilled, or rejected
Written(end) ==
    IF end.kind = "return" THEN end.resp ELSE ErrorResponse(end.err)

\* lines 120-138: a data event of connection c delivers chunk; when the
\* buffer holds a newline, the text before the first one is handled and the
\* text after it is kept, and a response that is ready is written
DataEvent(c, chunk) ==
    /\ run.pc = "live" /\ link[c] = "open"
    /\ chunks < MaxChunks
    /\ chunks' = chunks + 1
    /\ UNCHANGED <<lifecycleVars, link, run, cliVars>>
    /\ LET buffer == conn[c].buffer \o chunk
           newlineIndex == IndexOf(buffer, "\n")
           message == SubSeq(buffer, 1, newlineIndex - 1)
           rest == SubSeq(buffer, newlineIndex + 1, Len(buffer))
           r == chunks + 1
           h == HandleRequest(message)
       IN  IF newlineIndex = 0
           THEN /\ conn' = [conn EXCEPT ![c].buffer = buffer]
                /\ UNCHANGED <<req, tokenVars>>
           ELSE IF h.kind # "getToken"
           THEN /\ conn' = [conn EXCEPT ![c].buffer = rest,
                                        ![c].out = Append(@, Written(h))]
                /\ req' = [req EXCEPT ![r] =
                       [pc |-> "done", conn |-> c, msg |-> message, get |-> 0,
                        end |-> h]]
                /\ UNCHANGED tokenVars
           ELSE \E k \in Gets :
                   /\ GetTokenBegin(k)
                   /\ IF get'[k].pc = "done"
                      THEN /\ conn' = [conn EXCEPT ![c].buffer = rest,
                                  ![c].out = Append(@, Written(TokenResult(get'[k])))]
                           /\ req' = [req EXCEPT ![r] =
                                  [pc |-> "done", conn |-> c, msg |-> message,
                                   get |-> k, end |-> TokenResult(get'[k])]]
                      ELSE /\ conn' = [conn EXCEPT ![c].buffer = rest]
                           /\ req' = [req EXCEPT ![r] =
                                  [pc |-> "token", conn |-> c, msg |-> message,
                                   get |-> k, end |-> Suspended]]

\* the daemon process exits with code, the shutdown handler having been run
\* for sig signals: its calls end with it, its listeners are closed and its
\* connections are over; the files stay as they are
ProcessExit(code, sig) ==
    /\ run' = [run EXCEPT !.pc = "exited", !.code = code, !.sig = sig]
    /\ call' = [call EXCEPT ![1] = [f \in Slots |-> IdleCall]]
    /\ lsn' = [i \in ListenerIds |-> IF lsn[i] = 1 THEN 0 ELSE lsn[i]]
    /\ server' = [server EXCEPT ![1] = 0]
    /\ link' = [c \in Conns |-> IF link[c] = "open" THEN "over" ELSE link[c]]
    /\ UNCHANGED <<sockFile, pidFile, client, clean>>

\* line 118: a client has connected to the listener of the daemon, for
\* which no close has been requested
Accept(c) ==
    /\ run.pc = "live" /\ link[c] = "none"
    /\ \E i \in ListenerIds :
         /\ lsn[i] = 1
         /\ \A f \in Slots : ~(call[1][f].op = "stop" /\ call[1][f].srv = i)
    /\ link' = [link EXCEPT ![c] = "open"]
    /\ UNCHANGED <<lifecycleVars, tokenVars, conn, chunks, req, run, cliVars>>

\* the peer of connection c disconnects; the handler has registered no
\* listener for the end, close or error event of the socket (lines 118-139)
Disconnect(c) ==
    /\ run.pc = "live" /\ link[c] = "open"
    /\ link' = [link EXCEPT ![c] = "over"]
    /\ UNCHANGED <<lifecycleVars, tokenVars, conn, chunks, req, run, cliVars>>

\* a bug: the response is written to every connection
Respond_Broadcast(r) ==
    /\ req[r].pc = "token"
    /\ get[req[r].get].pc = "done"
    /\ LET end == TokenResult(get[req[r].get])
       IN  /\ req' = [req EXCEPT ![r].pc = "done", ![r].end = end]
           /\ conn' = [c \in Conns |-> [conn[c] EXCEPT !.out = Append(@, Written(end))]]
    /\ UNCHANGED <<chunks, link, run, tokenVars, lifecycleVars, cliVars>>

\* lines 60-76 and 129-137: the getInstallationToken call of request r has
\* ended; the response is made and written to the connection of r
\* With the peer gone, socket.write either drops the line (the socket is
\* already destroyed) or fails with EPIPE, and the error event of the
\* socket, which has no listener, is thrown as an uncaught exception
Respond(r) ==
    /\ run.pc = "live"
    /\ req[r].pc = "token"
    /\ get[req[r].get].pc = "done"
    /\ LET end == TokenResult(get[req[r].get])
       IN  /\ req' = [req EXCEPT ![r].pc = "done", ![r].end = end]
           /\ IF link[req[r].conn] = "open"
              THEN /\ conn' = [conn EXCEPT ![req[r].conn].out = Append(@, Written(end))]
                   /\ UNCHANGED <<lifecycleVars, link, run>>
              ELSE /\ UNCHANGED conn
                   /\ \/ UNCHANGED <<lifecycleVars, link, run>>
                      \/ ProcessExit(1, run.sig) /\ UNCHANGED <<last, obs>>
    /\ UNCHANGED <<chunks, tokenVars, cliVars>>

(***************************************************************************)
(* The client: sendRequest, requestToken and ping                          *)
(***************************************************************************)
\* the response lines a peer sends: the lines of the daemon, and lines of
\* other servers
PongLine == <<"{", "\"ok\"", ":", "true", ",", "\"pong\"", ":", "true", "}">>
TokenLine ==
    <<"{", "\"ok\"", ":", "true", ",", "\"token\"", ":", "\"T\"", ",",
      "\"expiresAt\"", ":", "\"1970-01-01T00:07:00.000Z\"", "}">>
ErrorLine == <<"{", "\"ok\"", ":", "false", ",", "\"error\"", ":", "\"X\"", "}">>
ReplyLines ==
    { PongLine, TokenLine, ErrorLine,
      <<"{", "\"ok\"", ":", "false", "}">>,
      <<"{", "\"error\"", ":", "\"X\"", "}">>,
      <<"{", "\"ok\"", ":", "true", ",", "\"token\"", ":", "\"T\"", "}">>,
      <<"{", "\"ok\"", ":", "true", ",", "\"expiresAt\"", ":",
        "\"1970-01-01T00:07:00.000Z\"", "}">>,
      <<"{", "\"ok\"", ":", "true", ",", "\"token\"", ":", "\"\"", ",",
        "\"expiresAt\"", ":", "\"1970-01-01T00:07:00.000Z\"", "}">>,
      <<"{", "\"ok\"", ":", "true", ",", "\"token\"", ":", "\"T\"", ",",
        "\"expiresAt\"", ":", "\"X\"", "}">>,
      <<"{", "}">>, <<"null">>, <<"x">>, <<>>, <<"{", "\"ok\"", ":">> }

\* the chunks the data events of the client deliver: a whole line, the two
\* parts of a line, and a line with text after it
ReplyChunks ==
    {line \o <<"\n">> : line \in ReplyLines}
        \cup { <<"{", "\"ok\"", ":", "true", ",">>,
               <<"\"pong\"", ":", "true", "}", "\n">>,
               ErrorLine \o <<"\n">> \o PongLine \o <<"\n">> }

\* the errors of a connection that was established
StreamErrors == {"ECONNRESET"}

\* a bug: the members of the response are used without a look at `ok`
RequestTokenResult_Trusting(raw) ==
    IF ~JsonParse(raw).ok THEN Failure("SocketError", "Malformed response")
    ELSE Ok(JsonMember(raw, "token").str, DateParse(JsonMember(raw, "expiresAt").str))

\* lines 67-91: what requestToken makes of the response line
RequestTokenResult(raw) ==
    LET parsed == JsonParse(raw)
        ok == JsonMember(raw, "ok")
        error == JsonMember(raw, "error")
        token == JsonMember(raw, "token")
        expiresAt == JsonMember(raw, "expiresAt")
    IN  IF ~parsed.ok THEN Failure("SocketError", "Malformed response")
        ELSE IF parsed.type = "null" THEN Failure("Defect", "TypeError")
        ELSE IF ~Truthy(ok)
        THEN Failure("SocketError",
                     IF error.type \in {"undefined", "null"} THEN "Server error"
                     ELSE error.str)
        ELSE IF ~Truthy(token) \/ ~Truthy(expiresAt)
        THEN Failure("SocketError", "Missing token or expiresAt in response")
        ELSE Ok(token.str, DateParse(expiresAt.str))

\* lines 94-100: ping drops the response line
PingResult(raw) == Ok("", NaN)

\* what is at the socket path
PathState ==
    IF ~sockFile.exists THEN "absent"
    ELSE IF sockFile.inode = 0 \/ lsn[sockFile.inode] = 0 THEN "stale"
    ELSE "listening"

\* lines 14-32: ping() or requestToken() calls sendRequest: existsSync, and
\* connect
SendRequest(kind) ==
    /\ rq.pc \in {"idle", "done"}
    /\ rq' = IF ~sockFile.exists
             THEN [NoRq EXCEPT !.pc = "done", !.kind = kind, !.saw = "absent",
                               !.end = Failure("DaemonNotRunning", "")]
             ELSE [NoRq EXCEPT !.pc = "connecting", !.kind = kind,
                               !.saw = PathState]
    /\ peer' = "none"
    /\ UNCHANGED <<lifecycleVars, tokenVars, serveVars>>

\* lines 34-36 and 48-54: the connect event (the message is written), or the
\* error event of a connection that failed
OnConnect ==
    /\ rq.pc = "connecting"
    /\ \E o \in ConnectOutcomes :
         IF o = "connect"
         THEN rq' = [rq EXCEPT !.pc = "open"] /\ peer' = "open"
         ELSE /\ rq' = [rq EXCEPT !.pc = "done", !.code = o,
                                  !.end = Failure(ErrorOf(o), o)]
              /\ UNCHANGED peer
    /\ UNCHANGED <<lifecycleVars, tokenVars, serveVars, gh>>

\* lines 38-46: a data event: the text up to the first newline is the
\* response, the socket is destroyed and the method goes on with the line
OnData(chunk) ==
    /\ rq.pc = "open" /\ peer = "open"
    /\ rq.n < MaxReplyChunks
    /\ LET buffer == rq.buffer \o chunk
           newlineIndex == IndexOf(buffer, "\n")
           response == SubSeq(buffer, 1, newlineIndex - 1)
       IN  IF newlineIndex = 0
           THEN rq' = [rq EXCEPT !.buffer = buffer, !.n = @ + 1] /\ UNCHANGED peer
           ELSE /\ rq' = [rq EXCEPT !.pc = "done", !.buffer = buffer, !.n = @ + 1,
                                    !.lined = TRUE, !.raw = response,
                                    !.end = IF rq.kind = "ping"
                                            THEN PingResult(response)
                                            ELSE RequestTokenResult(response)]
                /\ peer' = "none"
    /\ UNCHANGED <<lifecycleVars, tokenVars, serveVars, gh>>

\* lines 48-54: the error event of a connection that was established
OnError(code) ==
    /\ rq.pc = "open"
    /\ rq' = [rq EXCEPT !.pc = "done", !.code = code,
                        !.end = Failure(ErrorOf(code), code)]
    /\ peer' = "none"
    /\ UNCHANGED <<lifecycleVars, tokenVars, serveVars, gh>>

\* the peer closes the connection; sendRequest handles neither the end nor
\* the close event
PeerClose ==
    /\ rq.pc = "open" /\ peer = "open"
    /\ peer' = "closed"
    /\ UNCHANGED <<lifecycleVars, tokenVars, serveVars, rq, gh>>

\* a caller calls ping() or requestToken()
Call(kind) == SendRequest(kind) /\ UNCHANGED gh

\* a daemon process starts: it listens at the socket path
DaemonStarts ==
    /\ PathState # "listening"
    /\ sockFile' = SockOf(1, "0600")
    /\ pidFile' = PidOf(NumberToString(ProcessPid(1)))
    /\ lsn' = [lsn EXCEPT ![1] = 1]
    /\ server' = [server EXCEPT ![1] = 1]
    /\ UNCHANGED <<call, client, last, obs, clean, dataVars>>

\* the daemon process stops: the listener is closed and the files are gone
DaemonStops ==
    /\ PathState = "listening"
    /\ sockFile' = NoSock
    /\ pidFile' = NoPid
    /\ lsn' = [lsn EXCEPT ![1] = 0]
    /\ server' = [server EXCEPT ![1] = 0]
    /\ UNCHANGED <<call, client, last, obs, clean, dataVars>>

\* the daemon process is killed: its files stay behind
DaemonKilled ==
    /\ PathState = "listening"
    /\ lsn' = [lsn EXCEPT ![1] = 0]
    /\ server' = [server EXCEPT ![1] = 0]
    /\ UNCHANGED <<sockFile, pidFile, call, client, last, obs, clean, dataVars>>

(***************************************************************************)
(* The gh command and the poll of the auto-start (waitForDaemon)           *)
(***************************************************************************)
\* line 159: `attempt < 10`
PollAttempts == 10

\* line 166: Effect.sleep("200 millis")
PollDelay == 200

\* lines 459-464: the command begins with a token request
GhBegin(noDaemonStart) ==
    /\ gh.pc = "none"
    /\ SendRequest("requestToken")
    /\ gh' = [NoGh EXCEPT !.pc = "token", !.noDaemonStart = noDaemonStart,
                          !.tokens = 1]

\* a bug: the daemon is launched after any failure of the token request
GhLaunch_AnyFailure ==
    /\ gh.pc = "token" /\ rq.pc = "done"
    /\ rq.end.res # "Ok" /\ ~gh.noDaemonStart
    /\ \E prepared \in BOOLEAN :
         IF prepared
         THEN /\ SendRequest("ping")
              /\ gh' = [gh EXCEPT !.pc = "poll", !.first = rq.end.res,
                                  !.launches = @ + 1, !.attempt = 0,
                                  !.pings = @ + 1]
         ELSE /\ gh' = [gh EXCEPT !.pc = "end", !.first = rq.end.res]
              /\ UNCHANGED <<rq, peer, lifecycleVars, tokenVars, serveVars>>

\* lines 467-509 and 155-160: the token request failed with
\* DaemonNotRunning and --no-daemon-start is not given: the configuration
\* and the key are loaded and decrypted (the command ends when that fails),
\* startDaemonProcess launches a daemon, and waitForDaemon sends its first
\* ping
GhLaunch ==
    /\ gh.pc = "token" /\ rq.pc = "done"
    /\ rq.end.res = "DaemonNotRunning" /\ ~gh.noDaemonStart
    /\ \E prepared \in BOOLEAN :
         IF prepared
         THEN /\ SendRequest("ping")
              /\ gh' = [gh EXCEPT !.pc = "poll", !.first = rq.end.res,
                                  !.launches = @ + 1, !.attempt = 0,
                                  !.pings = @ + 1]
         ELSE /\ gh' = [gh EXCEPT !.pc = "end", !.first = rq.end.res]
              /\ UNCHANGED <<rq, peer, lifecycleVars, tokenVars, serveVars>>

\* lines 160-166 and 509-516: the ping of the poll has ended: on success
\* waitForDaemon returns and the token request is sent again; on failure
\* lastError is set and the poll sleeps
PollPinged ==
    /\ gh.pc = "poll" /\ rq.pc = "done"
    /\ IF rq.end.res = "Ok"
       THEN /\ SendRequest("requestToken")
            /\ gh' = [gh EXCEPT !.pc = "retry", !.poll = "Ok", !.tokens = @ + 1]
       ELSE /\ gh' = [gh EXCEPT !.pc = "sleep", !.lastError = rq.end.res]
            /\ UNCHANGED <<rq, peer, lifecycleVars, tokenVars, serveVars>>

\* a bug: the bound of the loop is inclusive, so there is one attempt more
PollSlept_Inclusive ==
    /\ gh.pc = "sleep"
    /\ IF gh.attempt + 1 <= PollAttempts
       THEN /\ SendRequest("ping")
            /\ gh' = [gh EXCEPT !.pc = "poll", !.attempt = @ + 1,
                                !.sleeps = @ + 1, !.slept = @ + PollDelay,
                                !.pings = @ + 1]
       ELSE /\ gh' = [gh EXCEPT !.pc = "end", !.attempt = @ + 1,
                                !.sleeps = @ + 1, !.slept = @ + PollDelay,
                                !.poll = IF gh.lastError # "none" THEN gh.lastError
                                         ELSE "DaemonNotRunning"]
            /\ UNCHANGED <<rq, peer, lifecycleVars, tokenVars, serveVars>>

\* lines 159-173 and 510-513: the sleep has ended: the next attempt sends a
\* ping; after the last attempt waitForDaemon fails with lastError, and the
\* command ends
PollSlept ==
    /\ gh.pc = "sleep"
    /\ IF gh.attempt + 1 < PollAttempts
       THEN /\ SendRequest("ping")
            /\ gh' = [gh EXCEPT !.pc = "poll", !.attempt = @ + 1,
                                !.sleeps = @ + 1, !.slept = @ + PollDelay,
                                !.pings = @ + 1]
       ELSE /\ gh' = [gh EXCEPT !.pc = "end", !.attempt = @ + 1,
                                !.sleeps = @ + 1, !.slept = @ + PollDelay,
                                !.poll = IF gh.lastError # "none" THEN gh.lastError
                                         ELSE "DaemonNotRunning"]
            /\ UNCHANGED <<rq, peer, lifecycleVars, tokenVars, serveVars>>

\* lines 464-471 and 516-551: the token request, the first one when no
\* daemon is to be launched or the second one, has ended: gh is run with the
\* token, or the error is printed
GhUse ==
    /\ rq.pc = "done"
    /\ \/ /\ gh.pc = "token"
          /\ ~(rq.end.res = "DaemonNotRunning" /\ ~gh.noDaemonStart)
          /\ gh' = [gh EXCEPT !.pc = "end", !.first = rq.end.res,
                              !.runs = IF rq.end.res = "Ok" THEN @ + 1 ELSE @]
       \/ /\ gh.pc = "retry"
          /\ gh' = [gh EXCEPT !.pc = "end", !.second = rq.end.res,
                              !.runs = IF rq.end.res = "Ok" THEN @ + 1 ELSE @]
    /\ UNCHANGED <<rq, peer, lifecycleVars, tokenVars, serveVars>>

(***************************************************************************)
(* runDaemon: the shutdown handler of SIGINT and SIGTERM                   *)
(***************************************************************************)
\* the promise of a shutdown is fulfilled and its `then` is due
ExitDue ==
    /\ run.pc = "live" /\ run.sig > 0
    /\ last.proc = 1 /\ last.op = "stop" /\ last.res = "Ok"

\* the promise of a shutdown is rejected by the failure of the close, and
\* the rejection, which nothing handles, is due to be reported
RejectionDue ==
    /\ run.pc = "live" /\ run.sig > 0 /\ ~run.rejected
    /\ last.proc = 1 /\ last.op = "stop" /\ last.res \in {"DaemonError", "Defect"}

\* part_003 lines 234-238 with part_002 lines 165-179: a signal is
\* delivered and shutdown runs daemon.stop(), up to its first suspension.
\* A signal is handled in a turn of its own, after the callbacks and the
\* promise reactions that are due; with no connection open the close
\* callback runs in the turn in which the close was requested.
\* With `server` unset stop() fails at once with DaemonNotRunning: the
\* promise is rejected, and the unhandled rejection ends the process with
\* code 1 or is only reported, as the runtime has it.
Signal(f) ==
    /\ run.pc = "live" /\ run.sig < MaxSignals
    /\ ~ExitDue /\ ~RejectionDue
    /\ \A g \in Slots : call[1][g].pc = "closing" => ~Drained(1)
    /\ call[1][f].pc = "idle"
    /\ Turn(1, f)
    /\ IF server[1] = 0
       THEN /\ last' = [proc |-> 1, op |-> "stop", res |-> "NotRunning", did |-> <<>>]
            /\ obs' = NoObs
            /\ \/ /\ run' = [run EXCEPT !.sig = @ + 1]
                  /\ UNCHANGED <<sockFile, pidFile, lsn, server, call, client, clean, link>>
               \/ ProcessExit(1, run.sig + 1)
       ELSE /\ call' = [call EXCEPT ![1][f] =
                    [IdleCall EXCEPT !.op = "stop", !.pc = "closing",
                                     !.srv = server[1], !.did = <<"server">>]]
            /\ server' = [server EXCEPT ![1] = 0]
            /\ run' = [run EXCEPT !.sig = @ + 1]
            /\ UNCHANGED <<sockFile, pidFile, lsn, client, last, obs, clean, link>>
    /\ UNCHANGED <<tokenVars, conn, chunks, req, cliVars>>

\* part_003 line 235: `.then(() => process.exit(0))`
ShutdownExit ==
    /\ ExitDue
    /\ ProcessExit(0, run.sig)
    /\ UNCHANGED <<last, obs, tokenVars, conn, chunks, req, cliVars>>

\* part_003 line 235: the promise has no rejection handler; the rejection
\* ends the process with code 1 or is only reported
ShutdownFailed ==
    /\ RejectionDue
    /\ \/ /\ run' = [run EXCEPT !.rejected = TRUE]
          /\ UNCHANGED <<lifecycleVars, link>>
       \/ ProcessExit(1, run.sig) /\ UNCHANGED <<last, obs>>
    /\ UNCHANGED <<tokenVars, conn, chunks, req, cliVars>>

(***************************************************************************)
(* Specifications                                                          *)
(***************************************************************************)
Start(p, f) ==
    \/ StartBegin(p, f) \/ StartReadPid(p, f) \/ StartProbe(p, f)
    \/ StartUnlinkPid(p, f) \/ StartCheckSock(p, f) \/ StartUnlinkSock(p, f)
    \/ StartListen(p, f) \/ StartListening(p, f) \/ StartBindError(p, f)
    \/ StartWritePid(p, f)

Stop(p, f) ==
    \/ StopBegin(p, f) \/ StopClosed(p, f) \/ StopUnlinkSock(p, f)
    \/ StopCheckPid(p, f) \/ StopUnlinkPid(p, f)

Status(p, f) ==
    \/ StatusBegin(p, f) \/ StatusReadPid(p, f) \/ StatusProbe(p, f)

\* several daemon processes on the same paths, each making one call at a
\* time, and a client
Next ==
    \/ \E p \in Procs : Start(p, 1) \/ Stop(p, 1) \/ Status(p, 1)
    \/ ClientSend
    \/ ClientConnect

Spec == Init /\ [][Next]_vars

\* one daemon process whose calls overlap, and a client
NextInst ==
    \/ \E f \in Slots : Start(1, f) \/ Stop(1, f) \/ Status(1, f)
    \/ ClientSend
    \/ ClientConnect

SpecInst == Init /\ [][NextInst]_vars

\* one daemon process whose calls are made one after the other, and a client
NextSeq ==
    \/ Start(1, 1) \/ Stop(1, 1) \/ Status(1, 1)
    \/ ClientSend
    \/ ClientConnect

SpecSeq == Init /\ [][NextSeq]_vars

\* the state of a daemon process whose lifecycle is at rest
LifecycleInit ==
    /\ sockFile = NoSock
    /\ pidFile = NoPid
    /\ lsn = [i \in ListenerIds |-> 0]
    /\ server = [p \in Procs |-> 0]
    /\ call = [p \in Procs |-> [f \in Slots |-> IdleCall]]
    /\ client = "idle"
    /\ last = NoResult
    /\ obs = NoObs
    /\ clean = TRUE

InitToken == LifecycleInit /\ TokenInit /\ ServeInit /\ link = [c \in Conns |-> "none"] /\ ClientInit

\* the token service, its calls overlapping as the requests of several
\* connections make them
NextToken ==
    \/ \E k \in Gets : TokenCall(k) \/ JwtEnds(k) \/ ExchangeEnds(k)
    \/ Tick

SpecToken == InitToken /\ [][NextToken]_vars

\* the token service, each call made after the one before it has returned
NextTokenSeq ==
    \/ \E k \in Gets : TokenCallSeq(k) \/ JwtEnds(k) \/ ExchangeEnds(k)
    \/ Tick

SpecTokenSeq == InitToken /\ [][NextTokenSeq]_vars

\* the state of a daemon process after a start() that found no files
RunningInit ==
    /\ sockFile = SockOf(1, "0600")
    /\ pidFile = PidOf(NumberToString(ProcessPid(1)))
    /\ lsn = [i \in ListenerIds |-> IF i = 1 THEN 1 ELSE 0]
    /\ server = [p \in Procs |-> IF p = 1 THEN 1 ELSE 0]
    /\ call = [p \in Procs |-> [f \in Slots |-> IdleCall]]
    /\ client = "idle"
    /\ last = [proc |-> 1, op |-> "start", res |-> "Ok",
               did |-> <<"bind", "chmod", "server", "writePid">>]
    /\ obs = NoObs
    /\ clean = TRUE

InitServe == RunningInit /\ TokenInit /\ ServeInit /\ link = [c \in Conns |-> "open"] /\ ClientInit

\* a running daemon serving its connections
NextServe ==
    \/ \E c \in Conns, chunk \in Chunks : DataEvent(c, chunk)
    \/ \E k \in Gets : JwtEnds(k) \/ ExchangeEnds(k)
    \/ \E r \in Reqs : Respond(r)

SpecServe == InitServe /\ [][NextServe]_vars

\* the router of a running daemon, handling the lines one connection sends
NextRouter ==
    \/ \E line \in RequestLines : DataEvent(1, line \o <<"\n">>)
    \/ \E k \in Gets : JwtEnds(k) \/ ExchangeEnds(k)
    \/ \E r \in Reqs : Respond(r)

SpecRouter == InitServe /\ [][NextRouter]_vars

InitClient == LifecycleInit /\ TokenInit /\ ServeInit /\ link = [c \in Conns |-> "none"] /\ ClientInit

\* a client calling ping() and requestToken() one after the other, while
\* daemon processes come and go and the peer answers as it likes
NextClient ==
    \/ \E kind \in {"ping", "requestToken"} : Call(kind)
    \/ OnConnect
    \/ \E chunk \in ReplyChunks : OnData(chunk)
    \/ \E code \in StreamErrors : OnError(code)
    \/ PeerClose
    \/ DaemonStarts
    \/ DaemonStops
    \/ DaemonKilled

SpecClient == InitClient /\ [][NextClient]_vars

\* the same, where the outcome of a connection attempt is always delivered;
\* the peer is free never to send
SpecClientFair == SpecClient /\ WF_vars(OnConnect)

\* one invocation of the gh command, while daemon processes come and go and
\* the peer answers as it likes
NextGh ==
    \/ \E noDaemonStart \in BOOLEAN : GhBegin(noDaemonStart)
    \/ GhLaunch
    \/ PollPinged
    \/ PollSlept
    \/ GhUse
    \/ OnConnect
    \/ \E chunk \in ReplyChunks : OnData(chunk)
    \/ \E code \in StreamErrors : OnError(code)
    \/ PeerClose
    \/ DaemonStarts
    \/ DaemonStops
    \/ DaemonKilled

SpecGh == InitClient /\ [][NextGh]_vars

\* the same, where the command takes its steps, the timer of the sleep
\* fires and the outcome of a connection attempt is delivered
SpecGhFair ==
    /\ SpecGh
    /\ WF_vars(OnConnect)
    /\ WF_vars(GhLaunch) /\ WF_vars(PollPinged) /\ WF_vars(PollSlept)
    /\ WF_vars(GhUse)

\* the daemon is running and no client has connected
InitDrain == RunningInit /\ TokenInit /\ ServeInit /\ link = [c \in Conns |-> "none"] /\ ClientInit

\* SocketClient.ts lines 27-29: a client writes its one request, here
\* getToken, when it has connected
ClientRequest(c) ==
    /\ \A r \in Reqs : req[r].conn # c
    /\ DataEvent(c, GetToken \o <<"\n">>)

\* The daemon serving getToken requests of clients that come and go
NextDrain ==
    \/ \E c \in Conns : Accept(c) \/ Disconnect(c) \/ ClientRequest(c)
    \/ \E k \in Gets : JwtEnds(k) \/ ExchangeEnds(k)
    \/ \E r \in Reqs : Respond(r)

SpecDrain == InitDrain /\ [][NextDrain]_vars

\* The daemon process shutting down on signals while clients come and go
NextShutdown ==
    \/ \E c \in Conns : Accept(c) \/ Disconnect(c)
    \/ \E f \in Slots : \/ Signal(f) \/ StopClosed(1, f) \/ StopUnlinkSock(1, f)
                        \/ StopCheckPid(1, f) \/ StopUnlinkPid(1, f)
    \/ ShutdownExit
    \/ ShutdownFailed

SpecShutdown == InitDrain /\ [][NextShutdown]_vars

\* The event loop runs the callbacks that are due: the close callback once
\* the connections have ended, the synchronous rest of stop() and the
\* reactions to the promise of the shutdown.  Nothing makes a client
\* disconnect, and nothing makes a close fail.
SpecShutdownFair ==
    /\ SpecShutdown
    /\ WF_vars(\E f \in Slots : StopClosed(1, f) /\ call'[1][f].op = "stop")
    /\ WF_vars(\E f \in Slots : StopUnlinkSock(1, f))
    /\ WF_vars(\E f \in Slots : StopCheckPid(1, f))
    /\ WF_vars(\E f \in Slots : StopUnlinkPid(1, f))
    /\ WF_vars(ShutdownExit)
    /\ WF_vars(ShutdownFailed)

(***************************************************************************)
(* Vocabulary of the properties                                            *)
(***************************************************************************)
\* no call of process p is in progress
Idle(p) == \A f \in Slots : call[p][f].pc = "idle"

\* the listeners open in process p
ListenersOf(p) == {i \in ListenerIds : lsn[i] = p}

\* the pid file records a process that can be signalled
PidFileAlive ==
    /\ pidFile.exists
    /\ LET n == ParseInt(Trim(pidFile.text))
       IN  ~n.nan /\ KillOutcome(n.val) = "ok"

\* this step is the return of a call of op in process p with result res
Returns(p, op, res) ==
    /\ last' = [proc |-> p, op |-> op, res |-> res, did |-> last'.did]
    /\ obs' = NoObs
    /\ \E f \in Slots :
         /\ call' = [call EXCEPT ![p][f] = IdleCall]
         /\ \/ call[p][f].op = op
            \/ call[p][f] = IdleCall /\ <<last, obs>>' # <<last, obs>>

\* the files, the listeners and the handles are left as they are
Untouched == UNCHANGED <<sockFile, pidFile, lsn, server>>

(***************************************************************************)
(* Properties                                                              *)
(***************************************************************************)
\* C1: at no time are listeners of two daemon processes open that were bound
\* to the socket path.
C1_OneDaemonBound ==
    \A i, j \in ListenerIds : (lsn[i] # 0 /\ lsn[j] # 0) => lsn[i] = lsn[j]

\* C2: within one DaemonService instance at most one listener exists at any
\* time, for every interleaving of its start() and stop() calls.
C2_OneListenerPerInstance ==
    \A p \in Procs : Cardinality(ListenersOf(p)) <= 1

\* C3: on one instance whose calls follow one another, a status() made after
\* a successful start() reports running with the process's own, positive pid,
\* and a status() made after a successful stop() reports stopped with no pid.
C3_StatusFollowsLifecycle ==
    obs.status # "none" =>
        /\ (last.op = "start" /\ last.res = "Ok") =>
              /\ obs.status = "Running"
              /\ obs.pid = ProcessPid(last.proc)
              /\ obs.pid > 0
        /\ (last.op = "stop" /\ last.res = "Ok") =>
              /\ obs.status = "Stopped"
              /\ obs.pid = 0

C3_Witness ==
    /\ last.op = "stop" /\ last.res = "Ok"
    /\ obs.status = "Stopped"

\* C4: a start() that finds a handle in its instance, or that probes the
\* process recorded in the pid file and finds it alive, returns AlreadyRunning;
\* and a start() that returns AlreadyRunning has changed no file, no listener
\* and no handle.
C4_AlreadyRunningFrame ==
    [][\A p \in Procs :
         /\ Returns(p, "start", "AlreadyRunning") => (last'.did = <<>> /\ Untouched)
         /\ \A f \in Slots :
              /\ (call[p][f].pc = "idle" /\ server[p] # 0) => call'[p][f].op # "start"
              /\ ( /\ call[p][f].op = "start" /\ call[p][f].pc = "probe"
                   /\ call'[p][f] # call[p][f]
                   /\ KillOutcome(call[p][f].pid) = "ok" )
                 => Returns(p, "start", "AlreadyRunning")]_vars

C4_Witness ==
    /\ last.op = "start" /\ last.res = "AlreadyRunning"
    /\ server[last.proc] = 0
    /\ PidFileAlive /\ sockFile.exists
    /\ ListenersOf(last.proc) = {}

\* C5: on one instance whose calls follow one another, stale files never
\* block start(): it reaches the bind only with the socket path free, it fails
\* with AlreadyRunning only while the instance holds a handle or the pid file
\* records a live process, it succeeds whenever the bind succeeds, and after
\* its success the pid file holds the id of this process and the socket file
\* is the one of the new listener.
C5_StaleNeverBlocks ==
    /\ \A p \in Procs, f \in Slots : call[p][f].pc = "listen" => ~sockFile.exists
    /\ (last.op = "start" /\ Idle(last.proc)) =>
          /\ last.res \in {"Ok", "AlreadyRunning", "DaemonError"}
          /\ last.res = "AlreadyRunning" => (server[last.proc] # 0 \/ PidFileAlive)
          /\ last.res = "DaemonError" => \A i \in 1..Len(last.did) : last.did[i] # "bind"
          /\ last.res = "Ok" =>
                /\ pidFile = PidOf(NumberToString(ProcessPid(last.proc)))
                /\ server[last.proc] # 0
                /\ sockFile.exists /\ sockFile.inode = server[last.proc]
                /\ lsn[server[last.proc]] = last.proc

C5_Witness ==
    /\ last.op = "start" /\ last.res = "Ok" /\ Idle(last.proc)
    /\ Len(last.did) >= 2 /\ SubSeq(last.did, 1, 2) = <<"rmPid", "rmSock">>
    /\ pidFile.text = NumberToString(ProcessPid(last.proc))

\* C6: a stop() on an instance that holds no handle returns NotRunning, and a
\* stop() that returns NotRunning has changed no file, no listener and no
\* handle.
C6_NotRunningFrame ==
    [][\A p \in Procs :
         /\ Returns(p, "stop", "NotRunning") => (last'.did = <<>> /\ Untouched)
         /\ \A f \in Slots :
              (call[p][f].pc = "idle" /\ server[p] = 0) => call'[p][f].op # "stop"]_vars

C6_Witness ==
    /\ last.op = "stop" /\ last.res = "NotRunning"
    /\ pidFile.exists /\ sockFile.exists
    /\ ~PidFileAlive

\* C7: on one instance whose calls follow one another, after a successful
\* stop() neither file exists, the instance holds no handle and no open
\* listener, and a client request made then fails with DaemonNotRunning.
C7_StoppedMeansGone ==
    (last.op = "stop" /\ last.res = "Ok" /\ Idle(last.proc)) =>
        /\ ~sockFile.exists /\ ~pidFile.exists
        /\ server[last.proc] = 0 /\ ListenersOf(last.proc) = {}
        /\ obs.client \in {"none", "DaemonNotRunning"}

C7_Witness ==
    /\ last.op = "stop" /\ last.res = "Ok" /\ Idle(last.proc)
    /\ obs.client = "DaemonNotRunning"

\* C8: when the close of the listener fails, stop() returns DaemonError and
\* the socket file and the pid file are deleted and the handle is released.
C8_CleanupDespiteCloseFailure ==
    (last.op = "stop" /\ last.res = "DaemonError" /\ Idle(last.proc)) =>
        /\ ~sockFile.exists /\ ~pidFile.exists
        /\ server[last.proc] = 0

\* C9: starting without either file, whenever no call of the instance is in
\* progress the socket file exists exactly when the pid file does, and both
\* exist exactly when the instance holds a handle.
C9_FilesArePair ==
    (clean /\ \A p \in Procs : Idle(p)) =>
        /\ sockFile.exists <=> pidFile.exists
        /\ sockFile.exists <=> (\E p \in Procs : server[p] # 0)

\* C10: the pid file is written only by a start() whose listener is bound and
\* open, and a start() whose bind fails returns DaemonError without having
\* bound a listener, set the handle or written the pid file.
C10_PidAfterBind ==
    [][/\ (pidFile' # pidFile /\ pidFile'.exists) =>
            \E p \in Procs, f \in Slots :
                /\ call[p][f].op = "start" /\ call[p][f].pc = "resolved"
                /\ lsn[call[p][f].srv] = p
                /\ server'[p] = call[p][f].srv
                /\ pidFile'.text = NumberToString(ProcessPid(p))
       /\ \A p \in Procs :
            /\ (\E f \in Slots : call[p][f].pc = "bindErr" /\ call'[p][f] # call[p][f])
                  => Returns(p, "start", "DaemonError")
            /\ Returns(p, "start", "DaemonError") =>
                  /\ Untouched
                  /\ server'[p] = 0
                  /\ \A i \in 1..Len(last'.did) : last'.did[i] \notin {"bind", "server", "writePid"}]_vars

C10_Witness ==
    /\ last.op = "start" /\ last.res = "DaemonError"
    /\ server[last.proc] = 0
    /\ ~pidFile.exists

\* C11: the liveness probe takes a recorded process for dead only when the
\* signal fails with "no such process"; so start() goes on to delete the pid
\* file only when its text names no process or a process that does not exist,
\* and never when the signal to the recorded process fails with permission
\* denied.
C11_PermissionDeniedIsAlive ==
    \A p \in Procs, f \in Slots :
        (call[p][f].op = "start" /\ call[p][f].pc = "rmPid" /\ pidFile.exists) =>
            LET n == ParseInt(Trim(pidFile.text))
            IN  n.nan \/ KillOutcome(n.val) = "ESRCH"

\* this step is a step of a status() call of process p
StatusStep(p) ==
    \/ \E f \in Slots :
          /\ call'[p][f] # call[p][f]
          /\ call[p][f].op = "status" \/ call'[p][f].op = "status"
    \/ /\ UNCHANGED <<call, client, last>>
       /\ obs'.client = obs.client
       /\ obs' # obs
       /\ obs'.status = "Stopped" \/ obs'.pid = ProcessPid(p)

\* C12: no step of a status() call creates, deletes or rewrites the pid file
\* or the socket file, opens or closes a listener or changes a handle; and a
\* status() whose probe finds that the recorded process does not exist
\* reports stopped with no pid.
C12_StatusFrame ==
    [][\A p \in Procs :
         /\ StatusStep(p) => Untouched
         /\ \A f \in Slots :
              ( /\ call[p][f].op = "status" /\ call[p][f].pc = "probeQ"
                /\ call'[p][f] # call[p][f]
                /\ KillOutcome(call[p][f].pid) = "ESRCH" )
              => (obs'.status = "Stopped" /\ obs'.pid = 0 /\ Untouched)]_vars

C12_Witness ==
    /\ obs.status = "Stopped" /\ obs.pid = 0
    /\ pidFile = PidOf(NumberToString(DeadPid) \o <<"\n">>)
    /\ \A p \in Procs : Idle(p) /\ server[p] = 0

\* C13: on an instance that holds no listener and whose calls follow one
\* another, status() reports running with the pid recorded in the pid file
\* when the file exists, its text names a process and the probe of that
\* process does not fail with "no such process"; otherwise it reports stopped
\* with no pid.
C13_StatusReadsPidFile ==
    (obs.status # "none" /\ \A p \in Procs : Idle(p) /\ server[p] = 0) =>
        LET n == ParseInt(Trim(pidFile.text))
        IN  IF pidFile.exists /\ ~n.nan /\ KillOutcome(n.val) # "ESRCH"
            THEN obs.status = "Running" /\ obs.pid = n.val
            ELSE obs.status = "Stopped" /\ obs.pid = 0

\* call k found the cache valid: a token was cached whose remaining lifetime
\* exceeded the buffer when the call was made
Hit(k) ==
    /\ get[k].seen # NoToken
    /\ ~get[k].seen.expiresAt.nan
    /\ get[k].seen.expiresAt.val - get[k].begun > CACHE_BUFFER_MS

\* the invocations of the provider made between the moment call k was made
\* and its return
Invoked(k) == SubSeq(provLog, get[k].from + 1, get[k].to)

\* C14: when calls follow one another, a call made while the token returned
\* by an earlier call still has more than the buffer to live returns the same
\* token and expiry, and the provider is not invoked between the return of
\* the earlier call and its own; the first call, when it succeeds, has invoked
\* generateJwt and requestInstallationToken once each.
C14_OneFetchWhileFresh ==
    /\ (get[1].pc = "done" /\ get[1].res = "Ok") =>
          /\ get[1].from = 0 /\ get[1].to = 2
          /\ provLog[1].step = "generateJwt"
          /\ provLog[2].step = "requestInstallationToken"
    /\ \A i, j \in Gets :
          ( /\ i < j /\ get[i].pc = "done" /\ get[j].pc = "done"
            /\ get[i].res = "Ok"
            /\ ~get[i].expiresAt.nan
            /\ get[i].expiresAt.val - get[j].begun > CACHE_BUFFER_MS )
          => /\ get[j].res = "Ok"
             /\ get[j].token = get[i].token
             /\ get[j].expiresAt = get[i].expiresAt
             /\ get[j].to = get[i].to

C14_Witness ==
    /\ \A k \in Gets : get[k].pc = "done" /\ get[k].res = "Ok" /\ get[k].token = 1
    /\ Len(provLog) = 2
    /\ get[MaxGets].begun > get[1].begun

\* C15: a call that returns a token without invoking the provider was made
\* while a token was cached whose expiry lay more than the buffer after the
\* time of the call, and it returns that token; a call made with no token
\* cached, or with one that had the buffer or less to live, invokes the
\* provider and does not return the token that was cached.
C15_ServedOnlyIfFresh ==
    \A k \in Gets :
        /\ (get[k].pc = "done" /\ get[k].res = "Ok" /\ get[k].to = get[k].from) =>
              /\ Hit(k)
              /\ get[k].token = get[k].seen.token
              /\ get[k].expiresAt = get[k].seen.expiresAt
        /\ (get[k].pc # "new" /\ ~Hit(k)) =>
              /\ get[k].jwt = get[k].from + 1
              /\ provLog[get[k].jwt].step = "generateJwt"
              /\ get[k].res = "Ok" => get[k].token # get[k].seen.token

C15_Witness ==
    \E k \in Gets :
        /\ get[k].pc = "done" /\ get[k].res = "Ok"
        /\ get[k].seen # NoToken
        /\ get[k].seen.expiresAt = Num(get[k].begun + CACHE_BUFFER_MS)
        /\ get[k].begun > 0

\* C16: when calls follow one another, a call that found the cache empty or
\* not valid and that succeeds has invoked generateJwt once and then
\* requestInstallationToken once, with the JWT that invocation produced and
\* nothing else; it returns a token that no earlier call returned, and that
\* token with its expiry is what the cache holds for the next call.
C16_OneInvocationPerMiss ==
    \A k \in Gets :
        (get[k].pc = "done" /\ ~Hit(k)) =>
            /\ Len(Invoked(k)) \in {1, 2}
            /\ Invoked(k)[1].step = "generateJwt"
            /\ get[k].res = "Ok" =>
                  /\ Len(Invoked(k)) = 2
                  /\ Invoked(k)[2].step = "requestInstallationToken"
                  /\ Invoked(k)[2].jwt = Invoked(k)[1].jwt
                  /\ \A i \in 1..(k - 1) : get[i].token # get[k].token
                  /\ LET t == [token |-> get[k].token, expiresAt |-> get[k].expiresAt]
                     IN  IF k < MaxGets /\ get[k + 1].pc # "new"
                         THEN get[k + 1].seen = t
                         ELSE cached = t

C16_Witness ==
    /\ \A k \in Gets : get[k].pc = "done" /\ get[k].res = "Ok" /\ get[k].token = k
    /\ \A k \in Gets : get[k].expiresAt = Num(get[k].begun + 4 * Minute)
    /\ Len(provLog) = 2 * MaxGets

\* C17: a call returns the error its provider invocation ended with: when
\* generateJwt fails the call fails with that error and
\* requestInstallationToken is not invoked with its JWT; when
\* requestInstallationToken fails the call fails with that error; and a call
\* whose provider invocation failed returns no token, whatever the cache
\* holds.
C17_ErrorsPropagate ==
    \A k \in Gets :
        (get[k].pc = "done" /\ get[k].jwt # 0) =>
            /\ provLog[get[k].jwt].out = "JwtGenerationError" =>
                  /\ get[k].res = "JwtGenerationError"
                  /\ get[k].xch = 0
                  /\ \A i \in 1..Len(provLog) :
                        provLog[i].step = "requestInstallationToken"
                            => provLog[i].jwt # get[k].jwt
            /\ get[k].xch # 0 =>
                  /\ provLog[get[k].xch].out \in {"ok", "GitHubApiError"}
                  /\ provLog[get[k].xch].out = "GitHubApiError" =>
                        get[k].res = "GitHubApiError"
            /\ get[k].res # "Ok" =>
                  /\ get[k].token = 0
                  /\ get[k].res \in {"JwtGenerationError", "GitHubApiError"}
            /\ get[k].res = "Ok" =>
                  /\ provLog[get[k].jwt].out = "ok"
                  /\ provLog[get[k].xch].out = "ok"

C17_Witness ==
    \E j, k \in Gets :
        /\ get[j].pc = "done" /\ get[j].res = "JwtGenerationError"
        /\ get[j].seen # NoToken
        /\ get[k].pc = "done" /\ get[k].res = "GitHubApiError"
        /\ get[k].seen # NoToken

\* the requests the router has been given for connection c
RequestsOf(c) == {r \in Reqs : req[r].pc # "none" /\ req[r].conn = c}

\* C18: over its whole lifetime a connection is written at most one response
\* line and the router handles at most one message of it; nothing is written
\* to a connection of which no message was handled.
C18_SingleShot ==
    \A c \in Conns :
        /\ Len(conn[c].out) <= 1
        /\ Cardinality(RequestsOf(c)) <= 1
        /\ RequestsOf(c) = {} => conn[c].out = <<>>

\* the text of the action of a parsed request in the "Unknown action" error
ActionText(parsed) ==
    IF parsed.type = "null" \/ parsed.action.type \in {"undefined", "null"}
    THEN "(none)"
    ELSE parsed.action.str

\* the parsed request names the action
Names(parsed, action) ==
    parsed.ok /\ parsed.type # "null" /\ parsed.action = Prim("string", action)

\* C19: the router ends a request that is no ping and no getToken with an
\* error response and never with an exception: "Invalid JSON" for a line
\* JSON.parse rejects, and "Unknown action: <value>" for a line that is JSON
\* but names neither ping nor getToken, be it an object with another or no
\* action or not an object.
C19_ErrorsAreAnswers ==
    \A r \in Reqs :
        req[r].pc # "none" =>
            LET parsed == JsonParse(Trim(req[r].msg))
            IN  /\ ~parsed.ok =>
                      req[r].end = Returned(ErrorResponse("Invalid JSON"))
                /\ (parsed.ok /\ ~Names(parsed, "ping") /\ ~Names(parsed, "getToken")) =>
                      /\ req[r].end.kind # "throw"
                      /\ req[r].end = Returned(ErrorResponse(
                                           "Unknown action: " \o ActionText(parsed)))

\* C20: a ping is answered {ok:true,pong:true} without a call of the token
\* service; a getToken calls the token service once and is answered with the
\* token and the ISO text of the expiry of the result of that call, or with
\* {ok:false,error} carrying its error; and the router ends neither with an
\* exception.
C20_DispatchMatchesWire ==
    \A r \in Reqs :
        LET parsed == JsonParse(Trim(req[r].msg))
        IN  /\ (req[r].pc # "none" /\ Names(parsed, "ping")) =>
                  /\ req[r].end = Returned(Pong)
                  /\ req[r].get = 0
            /\ (req[r].pc # "none" /\ Names(parsed, "getToken")) =>
                  /\ req[r].get # 0
                  /\ req[r].pc = "done" =>
                        LET g == get[req[r].get]
                        IN  /\ g.pc = "done"
                            /\ g.res = "Ok" =>
                                  req[r].end = Returned(Response(TRUE, FALSE, g.token,
                                                   ToISOString(g.expiresAt.val), ""))
                            /\ g.res # "Ok" =>
                                  req[r].end = Returned(ErrorResponse(g.res))

\* the requests of connection c the router has answered
AnsweredOf(c) == {r \in RequestsOf(c) : req[r].pc = "done"}

\* request r waits for a call of the provider that has not returned
Waiting(r) == req[r].pc = "token" /\ get[req[r].get].pc # "done"

\* C21: a ping is answered {ok:true,pong:true} on its own connection by the
\* data event that delivers it, whatever getToken requests of other
\* connections wait for the provider; and the lines written to a connection
\* are the responses to the requests of that connection, one for each
\* request answered.
C21_ConnectionsIndependent ==
    /\ \A r \in Reqs :
           (req[r].pc # "none" /\ Names(JsonParse(Trim(req[r].msg)), "ping")) =>
               /\ req[r].pc = "done"
               /\ \E i \in 1..Len(conn[req[r].conn].out) :
                      conn[req[r].conn].out[i] = Pong
    /\ \A c \in Conns :
           /\ Len(conn[c].out) = Cardinality(AnsweredOf(c))
           /\ \A i \in 1..Len(conn[c].out) :
                  \E r \in AnsweredOf(c) : conn[c].out[i] = Written(req[r].end)

\* a ping was answered on its connection after a getToken of another
\* connection began to wait for the provider, and that one waits still
C21_Witness ==
    \E r1, r2 \in Reqs :
        /\ r1 < r2
        /\ Waiting(r1)
        /\ req[r2].pc = "done" /\ req[r2].conn # req[r1].conn
        /\ req[r2].end = Returned(Pong)
        /\ conn[req[r2].conn].out = <<Pong>>
        /\ conn[req[r1].conn].out = <<>>

\* the client's request has ended
Done == rq.pc = "done"

Answered(kind) == Done /\ rq.kind = kind /\ rq.lined

\* C23: requestToken() ends with SocketError when the response line is no
\* JSON text, and with SocketError carrying X when the line is an object
\* with ok false and the error text X; it succeeds only when the line is an
\* object with ok true that has a token and an expiresAt.
C23_RequestTokenClassification ==
    Answered("requestToken") =>
        /\ ~JsonParse(rq.raw).ok => rq.end.res = "SocketError"
        /\ (/\ JsonMember(rq.raw, "ok") = Prim("boolean", "false")
            /\ JsonMember(rq.raw, "error").type = "string") =>
               rq.end = Failure("SocketError", JsonMember(rq.raw, "error").str)
        /\ rq.end.res = "Ok" =>
               /\ JsonMember(rq.raw, "ok") = Prim("boolean", "true")
               /\ JsonMember(rq.raw, "token").type # "undefined"
               /\ JsonMember(rq.raw, "expiresAt").type # "undefined"

\* a token request was answered {"ok":false,"error":"X"} and ended with
\* SocketError carrying X
C23_Witness ==
    /\ Answered("requestToken") /\ rq.raw = ErrorLine
    /\ rq.end = Failure("SocketError", "X")

\* C24: ping() ends with SocketError when the response line is no JSON text
\* and when it is an object with ok false, and succeeds only when the line
\* is an object with ok true.
C24_PingClassification ==
    Answered("ping") =>
        /\ ~JsonParse(rq.raw).ok => rq.end.res = "SocketError"
        /\ JsonMember(rq.raw, "ok") = Prim("boolean", "false") =>
               rq.end.res = "SocketError"
        /\ rq.end.res = "Ok" => JsonMember(rq.raw, "ok") = Prim("boolean", "true")

\* C25: every request of the client ends: one whose connection was accepted
\* and that gets no complete response line, or whose peer closes the
\* connection without a response, ends (with a failure) all the same.
C25_RequestsEnd == (rq.pc \in {"connecting", "open"}) ~> Done

\* waitForDaemon is running, and has ended
Polling == gh.pc \in {"poll", "sleep"}
PollEnded == gh.poll # "none"

\* C26: the poll sends at most 10 pings, one in each attempt, and sleeps
\* 200 ms after every ping that failed; it ends at the first ping that
\* succeeds, which is its last one, and otherwise after the tenth; and, as
\* long as every ping ends, the poll ends.
C26_PollBounded ==
    /\ [](/\ gh.pings <= 10
          /\ gh.slept = 200 * gh.sleeps
          /\ gh.pc = "poll" => gh.pings = gh.sleeps + 1
          /\ gh.pc = "sleep" => gh.pings = gh.sleeps + 1
          /\ gh.poll = "Ok" => gh.pings = gh.sleeps + 1
          /\ gh.poll \notin {"none", "Ok"} => gh.pings = 10 /\ gh.sleeps = 10)
    /\ (((rq.pc \in {"connecting", "open"}) ~> Done) => (Polling ~> PollEnded))

\* the poll has ended without success after ten pings and 2000 ms of sleep
C26_Witness ==
    /\ gh.poll \notin {"none", "Ok"}
    /\ gh.pings = 10 /\ gh.slept = 2000

\* C27: a poll that ends without a successful ping fails with
\* DaemonNotRunning, whatever the errors of its pings were.
C27_ExhaustionIsNotRunning ==
    gh.poll \notin {"none", "Ok"} => gh.poll = "DaemonNotRunning"

\* C28: one invocation of gh sends at most two token requests and launches
\* at most one daemon; it launches and polls only after its first token
\* request failed with DaemonNotRunning, and never with --no-daemon-start;
\* it sends the second token request when, and only when, the poll has
\* succeeded; and after a poll that failed it runs no gh.
C28_OneRetry ==
    /\ gh.tokens <= 2 /\ gh.launches <= 1 /\ gh.runs <= 1
    /\ gh.launches = 1 => gh.first = "DaemonNotRunning" /\ ~gh.noDaemonStart
    /\ gh.pings > 0 => gh.launches = 1
    /\ gh.tokens = 2 <=> gh.poll = "Ok"
    /\ gh.poll \notin {"none", "Ok"} => gh.tokens = 1 /\ gh.runs = 0
    /\ gh.runs = 1 => "Ok" \in {gh.first, gh.second}

\* the command has launched a daemon, polled it with success at the third
\* ping, sent its second token request and run gh
C28_Witness ==
    /\ gh.pc = "end" /\ gh.launches = 1 /\ gh.pings = 3 /\ gh.poll = "Ok"
    /\ gh.tokens = 2 /\ gh.second = "Ok" /\ gh.runs = 1

\* C29: the listen callback of start() goes on to resolve whether or not
\* the chmod of the socket file fails, and the start() it belongs to then
\* returns success with the handle set to its listener, the listener still
\* open and the pid file written.
C29_ChmodFailureHarmless ==
    [][\A p \in Procs, f \in Slots :
          LET c == call[p][f]
          IN  /\ (c.op = "start" /\ c.pc = "bound" /\ call'[p][f] # c) =>
                    /\ call'[p][f].pc = "resolved"
                    /\ call'[p][f].srv = c.srv
                    /\ lsn'[c.srv] = p
              /\ (c.op = "start" /\ c.pc = "resolved" /\ call'[p][f] # c) =>
                    /\ last' = [proc |-> p, op |-> "start", res |-> "Ok",
                                did |-> c.did \o <<"server", "writePid">>]
                    /\ server'[p] = c.srv
                    /\ lsn'[c.srv] = p
                    /\ pidFile' = PidOf(NumberToString(ProcessPid(p)))]_vars

\* a start() whose chmod failed has returned success: the socket file has
\* the permissions the bind gave it, the listener is open and the pid file
\* is written
C29_Witness ==
    /\ last.op = "start" /\ last.res = "Ok"
    /\ last.did = <<"bind", "server", "writePid">>
    /\ sockFile.exists /\ sockFile.mode = "umask"
    /\ server[last.proc] # 0 /\ lsn[server[last.proc]] = last.proc
    /\ pidFile = PidOf(NumberToString(ProcessPid(last.proc)))

\* C30: whenever an open listener is bound to the file at the socket path,
\* the permission bits of the file are 0600.
C30_BoundMeans0600 ==
    (sockFile.exists /\ sockFile.inode # 0 /\ lsn[sockFile.inode] # 0) =>
        sockFile.mode = "0600"

\* C31: a stop() deletes the socket file and the pid file only after the
\* close callback of its listener has run without an error: the step of the
\* callback closes the listener, a step of stop() that removes a file comes
\* after it, and while the close is only requested, or when it failed,
\* stop() removes no file.
C31_UnlinkAfterClose ==
    [][\A p \in Procs, f \in Slots :
          LET c == call[p][f]
          IN  (c.op = "stop" /\ call'[p][f] # c) =>
                  /\ <<sockFile, pidFile>>' # <<sockFile, pidFile>> =>
                        /\ Len(c.did) >= 2 /\ c.did[2] = "close"
                        /\ c.srv = 0
                  /\ c.pc = "closing" =>
                        /\ <<sockFile, pidFile>>' = <<sockFile, pidFile>>
                        /\ lsn[c.srv] = p
                        /\ call'[p][f].op = "stop" => lsn'[c.srv] = 0
                        /\ call'[p][f].op # "stop" =>
                              lsn' = lsn /\ last'.res = "DaemonError"]_vars

\* a stop() has closed its listener and then removed both files
C31_Witness ==
    /\ last.op = "stop" /\ last.res = "Ok"
    /\ last.did = <<"server", "close", "rmSock", "rmPid">>
    /\ ~sockFile.exists /\ ~pidFile.exists
    /\ ListenersOf(last.proc) = {}

\* the calls that found the cache not valid, and those of them that have
\* returned a token
Missed == {k \in Gets : get[k].pc # "new" /\ ~Hit(k)}
Fetched == {k \in Missed : get[k].pc = "done" /\ get[k].res = "Ok"}

\* the token and expiry call k returned
Pair(k) == [token |-> get[k].token, expiresAt |-> get[k].expiresAt]

\* the entries of the provider log that are invocations of step
LogOf(step) == {i \in 1..Len(provLog) : provLog[i].step = step}

\* C32: calls that find the cache not valid invoke the provider each on its
\* own, whether or not they overlap: there are as many invocations of
\* generateJwt as such calls, no two calls share an invocation of either
\* step, the exchange of a call is made with the JWT of that call, the calls
\* return tokens that differ, and once one of them has returned a token the
\* cache holds the token and expiry of the one whose exchange ended last
\* (tokens are numbered in the order the exchanges end).
C32_IndependentRefreshes ==
    /\ Cardinality(LogOf("generateJwt")) = Cardinality(Missed)
    /\ Cardinality(LogOf("requestInstallationToken"))
          = Cardinality({k \in Missed : get[k].xch # 0})
    /\ \A k \in Missed :
          /\ get[k].jwt \in LogOf("generateJwt")
          /\ get[k].xch # 0 =>
                /\ get[k].xch \in LogOf("requestInstallationToken")
                /\ provLog[get[k].xch].jwt = get[k].jwt
    /\ \A i, j \in Missed :
          i # j => /\ get[i].jwt # get[j].jwt
                   /\ get[i].xch # 0 => get[i].xch # get[j].xch
                   /\ (i \in Fetched /\ j \in Fetched) => get[i].token # get[j].token
    /\ Fetched # {} =>
          \E k \in Fetched :
              /\ cached = Pair(k)
              /\ \A j \in Fetched : get[j].token <= get[k].token

\* every call was made with the cache empty and before any other had gone
\* beyond generateJwt; all returned a token, the first call last
C32_Witness ==
    /\ \A k \in Gets : get[k].from = k - 1 /\ get[k].seen = NoToken
    /\ Fetched = Gets
    /\ Len(provLog) = 2 * MaxGets
    /\ get[1].token = MaxGets
    /\ cached = Pair(1)

\* C33: the cache is empty, or it holds the token together with the expiry
\* that one call received from one exchange that succeeded.
C33_CacheIsOneResponse ==
    cached # NoToken =>
        \E k \in Fetched :
            /\ get[k].xch # 0 /\ provLog[get[k].xch].out = "ok"
            /\ cached = Pair(k)

\* two refreshes overlapped and received different expiries; the cache holds
\* the response of the one that ended last, which is the call made first
C33_Witness ==
    \E i, j \in Fetched :
        /\ i < j /\ get[j].from < get[i].xch
        /\ get[i].token > get[j].token
        /\ get[i].expiresAt # get[j].expiresAt
        /\ get[j].seen = NoToken
        /\ cached = Pair(i)

\* C34: when the getInstallationToken call of a request has ended and the
\* peer of its connection has disconnected meanwhile, the step that would
\* write the response finds the call complete and, when it succeeded, a
\* fetched token in the cache; it writes nothing to any connection, and the
\* daemon process stays alive with its listener and its other connections
\* as they are.
C34_DisconnectIsHarmless ==
    [][\A r \in Reqs :
          ( /\ req[r].pc = "token" /\ req'[r].pc = "done"
            /\ link[req[r].conn] = "over" )
          => /\ get[req[r].get].pc = "done"
             /\ get[req[r].get].res = "Ok" => \E k \in Fetched : cached = Pair(k)
             /\ conn' = conn
             /\ run'.pc = "live"
             /\ lsn' = lsn /\ link' = link]_vars

\* C35: a stop() call of the daemon process that is in progress ends: it
\* returns, or the process exits.
C35_StopCompletes ==
    (\E f \in Slots : call[1][f].op = "stop") ~> (\A f \in Slots : call[1][f].op # "stop")

\* C36: a start() that follows a stop() of the same process which returned
\* success or DaemonError is not rejected with AlreadyRunning on finding the
\* id of its own process in the pid file.
C36_NotStuckAfterStop ==
    [][\A p \in Procs, f \in Slots :
          ( /\ last.proc = p /\ last.op = "stop"
            /\ last.res \in {"Ok", "DaemonError"}
            /\ call[p][f].op = "start" /\ call[p][f].pc = "probe"
            /\ call[p][f].pid = ProcessPid(p) )
          => ~Returns(p, "start", "AlreadyRunning")]_vars

\* the step is taken by slot f of process p alone, which was idle, and a
\* stop() call is begun: it goes on to the close, or returns at once
BeginsStop(p, f) ==
    /\ call[p][f].pc = "idle"
    /\ \A q \in Procs, h \in Slots : <<q, h>> # <<p, f>> => call'[q][h] = call[q][h]
    /\ \/ call'[p][f].op = "stop"
       \/ /\ call'[p][f] = IdleCall
          /\ last' # last /\ last'.proc = p /\ last'.op = "stop"

C38_StopRemovesOwn ==
    [][\A p \in Procs, f \in Slots :
          (call[p][f].op = "stop" /\ call'[p][f] # call[p][f]) =>
              /\ (sockFile.exists /\ ~sockFile'.exists) =>
                    ~( /\ sockFile.inode \in ListenerIds
                       /\ lsn[sockFile.inode] \notin {0, p} )
              /\ (pidFile.exists /\ ~pidFile'.exists) =>
                    LET n == ParseInt(Trim(pidFile.text))
                    IN  ~( /\ ~n.nan
                           /\ \E q \in Procs \ {p} :
                                 /\ n.val = ProcessPid(q)
                                 /\ ListenersOf(q) # {} )]_vars

\* C39: when calls follow one another, a call that fails leaves the cache as
\* it found it: the next call finds what the failed call found, and with no
\* next call the cache still holds it; and a call made after a failed one
\* that finds the cache not valid invokes generateJwt anew.
C39_FailureLeavesCache ==
    \A k \in Gets :
        (get[k].pc = "done" /\ get[k].res # "Ok") =>
            /\ ~Hit(k)
            /\ IF k < MaxGets /\ get[k + 1].pc # "new"
               THEN /\ get[k + 1].seen = get[k].seen
                    /\ ~Hit(k + 1) =>
                          /\ get[k + 1].jwt > get[k].to
                          /\ provLog[get[k + 1].jwt].step = "generateJwt"
               ELSE cached = get[k].seen

\* a call failed in each step with a token in the cache, and the call after
\* the second failure found that token and invoked the provider
C39_Witness ==
    \E i, j \in Gets :
        /\ j < MaxGets
        /\ get[i].pc = "done" /\ get[i].res = "JwtGenerationError"
        /\ get[j].pc = "done" /\ get[j].res = "GitHubApiError"
        /\ get[j].seen # NoToken /\ get[i].seen # NoToken
        /\ get[j + 1].seen = get[j].seen
        /\ get[j + 1].jwt # 0

\* C40: the daemon process that has exited after a signal has exited with
\* code 0 and has left neither the socket file nor the pid file; and once a
\* signal has been delivered the process exits.
C40_SignalExitsClean ==
    /\ [](run.pc = "exited" =>
            /\ run.code = 0
            /\ ~sockFile.exists /\ ~pidFile.exists)
    /\ (run.sig > 0) ~> (run.pc = "exited")

====
